---- MODULE Spec2Model ----
(***************************************************************************)
(* Encrypted voice chat: the client voice engine (VoiceEngine), its        *)
(* per-peer negotiation manager (SignalingManager) and the signaling relay *)
(* (server/routes/rooms.js), for one pair of clients A and B.              *)
(*                                                                         *)
(* Spec     two VoiceEngine instances, the relay's room membership, the    *)
(*          per-peer link, the data channel that carries key, key-ack and  *)
(*          audio messages, and the key exchange over it.  Offer/answer    *)
(*          negotiation is abstracted by the action Negotiated.            *)
(* SpecSig  two SignalingManager instances and their RTCPeerConnection     *)
(*          signaling state, exchanging offers and answers over the relay. *)
(* SpecGlare  SpecSig without stray events, under a running event loop.    *)
(* SpecRejoin  Spec's join, leave and link steps from an established       *)
(*          session; SpecRejoinFair adds a running event loop.             *)
(* SpecMesh  one VoiceEngine and the several peers of its room: the loops  *)
(*          of the room-participants handler and of the audio broadcast.   *)
(* SpecRetry  Spec's steps from a session whose initiator lacks the peer's *)
(*          public key.                                                    *)
(* SpecAudio  the audio path of one link: encryptAudioAES, the audio       *)
(*          message, handleIncomingAudio and decryptAudioAES, on bytes.    *)
(* SpecWrap  the key wrap: encryptSessionKey, encryptAudio, decryptAudio   *)
(*          and decryptSessionKey, on bytes.                               *)
(* SpecJoin  one VoiceEngine joining and leaving rooms, with its audio     *)
(*          capture and speaking detection.                                *)
(* SpecInitialize  VoiceEngine.initialize and the sockets it creates.      *)
(* SpecIce  the remote ICE candidates of one peer and the operations chain *)
(*          of its RTCPeerConnection.                                      *)
(* SpecPersonal  the personal meeting requests against POST /api/rooms.    *)
(* SpecLossy  Spec's join and key exchange steps over a data channel that  *)
(*          loses messages, under a running event loop.                    *)
(* SpecRelay  the signaling server's authenticate, join-room, leave-room   *)
(*          and disconnect handlers over three sockets and one room.       *)
(* SpecDeafen  the playback gain nodes under playAudio and setDeafened.    *)
(* SpecWorklet  the capture worklet's buffer (audio-processor.js).         *)
(*                                                                         *)
(* Every JavaScript handler is cut at its awaits: one action is the code   *)
(* from one await (or the handler's entry) to the next.                    *)
(***************************************************************************)
EXTENDS Naturals, Sequences, FiniteSets

Ends == {"A", "B"}

Peer(e) == IF e = "A" THEN "B" ELSE "A"

\* The number of join-room requests the two clients make together.
MaxJoins == 2

\* The number of negotiationneeded events each peer connection fires.
MaxNegotiations == 1

\* The number of answer events that reach the two ends without an offer of
\* theirs being answered (duplicates, answers of a confused far end).
MaxStray == 2

NoKey == 0

\* What a stored or advertised RSA public key is worth to the peer that wraps
\* a session key with it: "good" is the public half of the owner's current
\* key pair, "stale" is a key whose private half the owner no longer holds.
PubKeys == {"none", "good", "stale"}

VARIABLES
    \* ---- relay (server/routes/rooms.js)
    participants,       \* activeRoom.participants: the ends in the room
    partKey,            \* participant.publicKey as the relay stores it
    relay,              \* relay[e]: relay events on their way to e, in order
    joins,              \* join-room requests made so far
    epoch,              \* epoch[e]: how many times e has joined
    \* ---- VoiceEngine of e, entries for the peer identifier Peer(e)
    currentRoom,        \* this.currentRoom is set
    peerConnections,    \* peerConnections.has(peer)
    publicKey,          \* peerConnection.publicKey
    isInit,             \* isInitiator of the latest createPeerConnection
    pcEpoch,            \* the membership of the peer the link was created for
    connectionState,    \* peerConnection.connectionState
    signalingManagers,  \* signalingManagers.has(peer)
    dataChannels,       \* dataChannels.has(peer)
    readyState,         \* readyState of the link's data channel object
    chanInit,           \* isInitiator as setupDataChannel's handlers hold it
    closePending,       \* a close event of a data channel object is queued
    peerSessionKeys,    \* peerSessionKeys.get(peer), NoKey when absent
    secureChannels,     \* secureChannels.has(peer)
    openH,              \* the onopen handler, suspended at an await
    keyH,               \* the onmessage handler of a key message
    audioH,             \* handleIncomingAudio
    bcastH,             \* broadcastEncryptedAudio
    dc,                 \* dc[e]: data-channel messages sent by e, in flight
    transportUp,        \* the two current peer connections are connected
    nextKey,            \* the next key generateSessionKey draws
    \* ---- history of the engine, read by the properties only
    genCount,           \* session keys generated on e's current link
    keyFailed,          \* a key message failed to unwrap on e's current link
    \* ---- SignalingManager of e and its RTCPeerConnection
    polite,             \* this.polite
    makingOffer,        \* this.makingOffer
    ignoreOffer,        \* this.ignoreOffer
    isSettingRemoteAnswerPending,
    signalingState,     \* pc.signalingState
    pendLocal,          \* type of pc.pendingLocalDescription, "none" if null
    curLocal,           \* type of pc.currentLocalDescription, "none" if null
    chain,              \* the pc's operations chain: the awaited calls, in order
    sigRelay,           \* sigRelay[e]: offer and answer events on their way to e
    nnFired,            \* negotiationneeded events fired at e
    strays,             \* answer events the far end sent without an offer
    \* ---- history of the managers, read by the properties only
    offersSent,
    answersSent,
    accepted,           \* offers that passed handleOffer's ignore test
    rollbacks,          \* rollbacks applied
    ignored,            \* offers dropped by ignoreOffer
    collided,           \* handleOffer computed offerCollision = true
    faulted,            \* a descriptor call or an emit failed for an outside reason
    lastAnswer,         \* what handleAnswer did with the last answer
    \* ---- one VoiceEngine and the links to the several peers of its room
    listed,             \* participants of the room-participants message handled
    rpH,                \* the room-participants handler, suspended in its loop
    linked,             \* the peer ids that are keys of peerConnections
    channels,           \* the keys of dataChannels, in insertion order
    secured,            \* the peer ids in secureChannels (a session key is held)
    meshH,              \* broadcastEncryptedAudio, suspended in its loop
    \* ---- history of that engine, read by the properties only
    threwFor,           \* participants whose createPeerConnection threw
    framesTo,           \* peers the frame of the last broadcast was sent to
    lost,               \* peers for which encrypting or sending that frame threw
    \* ---- the audio path of one link: a sender, a receiver, a message
    txKey,              \* the session key the sender encrypts with
    rxKey,              \* peerSessionKeys.get(sender) at the receiver
    wire,               \* the audio message in flight: iv and data arrays
    \* ---- history of the audio path, read by the properties only
    origin,             \* the key and the frame the message in flight came from
    tampered,           \* a byte of the message in flight was altered
    sealed,             \* what encryptAudioAES produced: key, payload, frame
    nonces,             \* per encryption, in order: the key and the nonce drawn
    played,             \* the frames handed to playAudio, in order
    handled,            \* per message received, in order: what became of it
    \* ---- the key wrap: a sender A, a receiver B, a stream between them
    useNative,          \* cryptoService.useNative of each of the two
    rxKeyPair,          \* the receiver's key pair
    stream,             \* the wrapped bytes as they reach the receiver
    unwrapSt,           \* decryptSessionKey / decryptAudio at the receiver
    \* ---- history of the key wrap, read by the properties only
    wrapped,            \* what was wrapped: a key or a buffer, and for whom
    cut,                \* what happened to the stream on its way
    \* ---- one VoiceEngine joining and leaving rooms
    curRoom,            \* this.currentRoom, "none" for null
    isConnected,        \* this.isConnected
    sockSt,             \* this.socket: none, connecting or connected
    joinCalls,          \* the joinRoom calls made, each with where it stands
    analyser,           \* this.analyser is set
    rafLoops,           \* detectSpeaking callbacks waiting for a frame
    speakingHistory,    \* this.speakingHistory
    isSpeaking,         \* this.isSpeaking
    hasLinks,           \* peerConnections is not empty
    \* ---- history of that engine, read by the properties only
    emits,              \* join-room and leave-room messages emitted, in order
    spoke,              \* the arguments onSpeakingChange was called with
    lastSample,         \* the last sample taken was above the threshold
    ticks,              \* samples taken
    \* ---- VoiceEngine.initialize
    isInitialized,      \* this.isInitialized
    sockets,            \* the sockets io() created, in order, each with its state
    listenerSets,       \* setupSocketListeners runs that registered listeners
    initCalls,          \* calls of initialize made
    \* ---- remote ICE candidates at one engine, for one peer
    iceManager,         \* signalingManagers.has(from)
    iceRemote,          \* pc.remoteDescription of the current link is set
    iceChain,           \* the operations pending on the peer connection, in order
    pendingCandidates,  \* this.pendingCandidates.get(from), as a set
    iceArrived,         \* history: the candidates the relay delivered
    iceApplied,         \* history: the candidates addIceCandidate accepted
    iceLost,            \* history: the candidates dropped or rejected
    \* ---- personal meetings (POST /api/rooms)
    roomsDb,            \* the Room collection: a sequence of [joinCode, createdBy]
    personalReq,        \* per user, where the user's personal request stands
    personalResp,       \* the responses given: a sequence of [user, room]
    \* ---- the signaling server (initializeSignaling, RoomManager)
    liveSockets,        \* the sockets that are connected
    authPending,        \* sockets whose authenticate handler awaits User.findById
    connectedUsers,     \* sockets with an entry in connectedUsers
    userRoom,           \* sockets whose connectedUsers entry has currentRoom set
    activeRooms,        \* whether the room is loaded in RoomManager.activeRooms
    roomParticipants,   \* activeRoom.participants: per user id, the socket id stored
    ioRoom,             \* the sockets in the socket.io room
    addPending,         \* addParticipant calls that await Room.findById
    told,               \* the messages sent: [to, about, type]
    owed,               \* [to, about]: to was in the room when about left it
    departed,           \* sockets that left or disconnected and did not join since
    relayJoins,         \* the number of join-room requests handled
    \* ---- playback gain (playAudio, setDeafened)
    audioNodes,         \* the peers with a gain node in audioNodes
    gainValue,          \* per peer, gain.value of its node (0 without a node)
    deafened,           \* the argument of the last setDeafened call
    nodesBefore,        \* the peers that had a node when the engine was deafened
    gainBefore,         \* per peer, gain.value when the engine was deafened
    \* ---- the capture worklet (audio-processor.js)
    buffer,             \* this.buffer, empty until the processor is constructed
    bytesWritten,       \* this.bytesWritten
    posted,             \* the frames given to port.postMessage, in order
    fedSamples,         \* the number of input samples process was called with
    blocksFed,          \* the number of calls of process
    processThrew        \* whether a call of process threw

relayVars == <<participants, partKey, relay, joins, epoch>>

linkVars == <<peerConnections, publicKey, isInit, pcEpoch, connectionState,
              signalingManagers, dataChannels, readyState, chanInit,
              closePending>>

keyVars == <<peerSessionKeys, secureChannels>>

handlerVars == <<openH, keyH, audioH, bcastH>>

histVars == <<genCount, keyFailed>>

engVars == <<relayVars, currentRoom, linkVars, keyVars, handlerVars, dc,
             transportUp, nextKey, histVars>>

offerHist == <<offersSent, answersSent, accepted, rollbacks, ignored, collided>>

sigHist == <<offerHist, faulted, lastAnswer>>

sigVars == <<polite, makingOffer, ignoreOffer, isSettingRemoteAnswerPending,
             signalingState, pendLocal, curLocal, chain, sigRelay, nnFired,
             strays, sigHist>>

meshVars == <<listed, rpH, linked, channels, secured, meshH, threwFor,
              framesTo, lost>>

aesVars == <<txKey, rxKey, wire, origin, tampered, sealed, nonces, played,
             handled>>

wrapVars == <<useNative, rxKeyPair, stream, unwrapSt, wrapped, cut>>

joinVars == <<curRoom, isConnected, sockSt, joinCalls, analyser, rafLoops,
              speakingHistory, isSpeaking, hasLinks, emits, spoke, lastSample,
              ticks>>

initVars == <<isInitialized, sockets, listenerSets, initCalls>>

iceVars == <<iceManager, iceRemote, iceChain, pendingCandidates, iceArrived, iceApplied, iceLost>>

pmiVars == <<roomsDb, personalReq, personalResp>>

srvVars == <<liveSockets, authPending, connectedUsers, userRoom, activeRooms, roomParticipants, ioRoom, addPending, told, owed, departed, relayJoins>>

deafVars == <<audioNodes, gainValue, deafened, nodesBefore, gainBefore>>

workletVars == <<buffer, bytesWritten, posted, fedSamples, blocksFed, processThrew>>

laterVars == <<iceVars, pmiVars, srvVars, deafVars, workletVars>>

unitVars == <<aesVars, wrapVars, joinVars, initVars, laterVars>>

\* The two engines of a pair, their managers, and the engine with its peers.
pairVars == <<engVars, sigVars, meshVars>>

vars == <<engVars, sigVars, meshVars, unitVars>>

\* What the steps of one part leave alone.
aesRest == <<pairVars, wrapVars, joinVars, initVars, laterVars>>

wrapRest == <<pairVars, aesVars, joinVars, initVars, laterVars>>

joinRest == <<pairVars, aesVars, wrapVars, initVars, laterVars>>

initRest == <<pairVars, aesVars, wrapVars, joinVars, laterVars>>

\* The rest of the state for each of the later units.
iceRest == <<pairVars, aesVars, wrapVars, joinVars, initVars, pmiVars, srvVars, deafVars, workletVars>>

pmiRest == <<pairVars, aesVars, wrapVars, joinVars, initVars, iceVars, srvVars, deafVars, workletVars>>

srvRest == <<pairVars, aesVars, wrapVars, joinVars, initVars, iceVars, pmiVars, deafVars, workletVars>>

deafRest == <<pairVars, aesVars, wrapVars, joinVars, initVars, iceVars, pmiVars, srvVars, workletVars>>

workletRest == <<pairVars, aesVars, wrapVars, joinVars, initVars, iceVars, pmiVars, srvVars, deafVars>>

(***************************************************************************)
(* The relay: initializeSignaling, join-room and leave-room.               *)
(***************************************************************************)

\* socket.to(roomId): every socket of the room but the sender.
OthersInRoom(e) == participants \ {e}

\* room-participants as the relay builds it for the joiner e: the entries of
\* getParticipants(roomId) other than e's own, each with the stored key.
RoomParticipantsMsg(e) ==
    [type |-> "room-participants",
     has  |-> Peer(e) \in participants,
     key  |-> partKey[Peer(e)],
     ep   |-> epoch[Peer(e)]]

UserJoinedMsg(e, sentKey) ==
    [type |-> "user-joined", has |-> TRUE, key |-> sentKey, ep |-> epoch[e] + 1]

UserLeftMsg(e) ==
    [type |-> "user-left", has |-> TRUE, key |-> "none", ep |-> epoch[e]]

\* participant.publicKey: the key of the request, else the key the relay read
\* from the user record at authenticate, else null.
StoredKey(sentKey, dbKey) == IF sentKey # "none" THEN sentKey ELSE dbKey

\* The relay's join-room handler for the request of e.
ServerJoin(e, sentKey, dbKey) ==
    /\ participants' = participants \cup {e}
    /\ partKey' = [partKey EXCEPT ![e] = StoredKey(sentKey, dbKey)]
    /\ epoch' = [epoch EXCEPT ![e] = @ + 1]
    /\ relay' = [x \in Ends |->
                    IF x = e THEN Append(relay[x], RoomParticipantsMsg(e))
                    ELSE IF x \in OthersInRoom(e)
                         THEN Append(relay[x], UserJoinedMsg(e, sentKey))
                         ELSE relay[x]]

\* The relay's leave-room handler (handleLeaveRoom) for the request of e.
ServerLeave(e) ==
    /\ participants' = participants \ {e}
    /\ relay' = [x \in Ends |->
                    IF x \in OthersInRoom(e)
                    THEN Append(relay[x], UserLeftMsg(e))
                    ELSE relay[x]]
    /\ partKey' = [partKey EXCEPT ![e] = "none"]
    /\ UNCHANGED epoch

(***************************************************************************)
(* VoiceEngine: link creation and teardown.                                *)
(***************************************************************************)

IdleOpen == [st |-> "idle", live |-> FALSE, key |-> NoKey, pub |-> "none"]

IdleKey == [st |-> "idle", live |-> FALSE, key |-> NoKey, wrappedFor |-> "none"]

IdleAudio == [st |-> "idle", key |-> NoKey, msgKey |-> NoKey, secure |-> FALSE]

IdleBcast == [st |-> "idle", live |-> FALSE, key |-> NoKey, secure |-> FALSE]

\* The data channel object of e's handlers is closed: what they send throws.
Unlive(h, e) == [h EXCEPT ![e].live = FALSE]

ChannelAlive(e) == readyState[e] \in {"connecting", "open"}

\* What closePeerConnection writes.
closeVars == <<peerConnections, connectionState, dataChannels, readyState,
               closePending, transportUp, openH, keyH, bcastH>>

\* What createPeerConnection writes.
createVars == <<peerConnections, publicKey, isInit, pcEpoch, connectionState,
                signalingManagers, dataChannels, readyState, chanInit,
                genCount, keyFailed>>

\* closePeerConnection(peerId): closes and forgets the transport and the
\* data channel; the session key, the secure flag and the negotiation
\* manager of the peer are left in their maps.
ClosePeerConnection(e) ==
    /\ peerConnections' = [peerConnections EXCEPT ![e] = FALSE]
    /\ connectionState' = [connectionState EXCEPT
                              ![e] = IF peerConnections[e] THEN "closed" ELSE @]
    /\ dataChannels' = [dataChannels EXCEPT ![e] = FALSE]
    /\ readyState' = [readyState EXCEPT
                         ![e] = IF ChannelAlive(e) /\ (peerConnections[e] \/ dataChannels[e])
                                THEN "closed" ELSE @]
    /\ closePending' = [closePending EXCEPT
                           ![e] = @ \/ (ChannelAlive(e) /\ (peerConnections[e] \/ dataChannels[e]))]
    /\ transportUp' = (transportUp /\ ~peerConnections[e])
    /\ openH' = Unlive(openH, e)
    /\ keyH' = Unlive(keyH, e)
    /\ bcastH' = Unlive(bcastH, e)

\* createPeerConnection(peerId, userId, username, publicKey, isInitiator):
\* a new transport and a new negotiation manager replace the map entries of
\* the peer; the initiator also creates the data channel and sets it up.
CreatePeerConnection(e, pk, initiator, ep) ==
    /\ peerConnections' = [peerConnections EXCEPT ![e] = TRUE]
    /\ publicKey' = [publicKey EXCEPT ![e] = pk]
    /\ isInit' = [isInit EXCEPT ![e] = initiator]
    /\ pcEpoch' = [pcEpoch EXCEPT ![e] = ep]
    /\ connectionState' = [connectionState EXCEPT ![e] = "new"]
    /\ signalingManagers' = [signalingManagers EXCEPT ![e] = TRUE]
    /\ dataChannels' = [dataChannels EXCEPT ![e] = @ \/ initiator]
    /\ readyState' = [readyState EXCEPT
                         ![e] = IF initiator THEN "connecting"
                                ELSE IF ChannelAlive(e) THEN @ ELSE "none"]
    /\ chanInit' = [chanInit EXCEPT ![e] = IF initiator THEN TRUE ELSE @]
    /\ genCount' = [genCount EXCEPT ![e] = 0]
    /\ keyFailed' = [keyFailed EXCEPT ![e] = FALSE]

\* joinRoom(roomId, userPublicKey) of a client that is in no room, and the
\* relay's handling of its join-room request.
JoinRoom(e) ==
    /\ ~currentRoom[e]
    /\ joins < MaxJoins
    /\ joins = 0 => e = "A"
    /\ relay[e] = <<>>
    /\ \E sentKey \in {"none", "good"}, dbKey \in PubKeys :
          ServerJoin(e, sentKey, dbKey)
    /\ currentRoom' = [currentRoom EXCEPT ![e] = TRUE]
    /\ joins' = joins + 1
    /\ UNCHANGED <<linkVars, keyVars, handlerVars, dc, transportUp, nextKey,
                   histVars, sigVars, meshVars, unitVars>>

\* leaveRoom(): every link in peerConnections is closed, the managers are
\* cleared, leave-room is sent and handled by the relay.
LeaveRoom(e) ==
    /\ currentRoom[e]
    /\ IF peerConnections[e]
       THEN ClosePeerConnection(e)
       ELSE UNCHANGED closeVars
    /\ signalingManagers' = [signalingManagers EXCEPT ![e] = FALSE]
    /\ ServerLeave(e)
    /\ currentRoom' = [currentRoom EXCEPT ![e] = FALSE]
    /\ UNCHANGED <<joins, publicKey, isInit, pcEpoch, chanInit, audioH, keyVars,
                   dc, nextKey, histVars, sigVars, meshVars, unitVars>>

Pop(e) == [relay EXCEPT ![e] = Tail(@)]

\* socket.on('room-participants'): a link is created, as initiator, to every
\* participant listed.
RoomParticipants(e) ==
    /\ relay[e] # <<>>
    /\ Head(relay[e]).type = "room-participants"
    /\ relay' = Pop(e)
    /\ IF Head(relay[e]).has
       THEN CreatePeerConnection(e, Head(relay[e]).key, TRUE, Head(relay[e]).ep)
       ELSE UNCHANGED createVars
    /\ UNCHANGED <<participants, partKey, joins, epoch, currentRoom,
                   closePending, keyVars, handlerVars, dc, transportUp,
                   nextKey, sigVars, meshVars, unitVars>>

\* A user-joined handler that creates the link as initiator.
UserJoinedAsInitiator == TRUE

\* The isInitiator argument of the user-joined handler's createPeerConnection.
UserJoinedIsInitiator == FALSE

\* socket.on('user-joined'): a link is created to the newcomer, not as
\* initiator.
UserJoined(e) ==
    /\ relay[e] # <<>>
    /\ Head(relay[e]).type = "user-joined"
    /\ relay' = Pop(e)
    /\ CreatePeerConnection(e, Head(relay[e]).key, UserJoinedIsInitiator,
                            Head(relay[e]).ep)
    /\ UNCHANGED <<participants, partKey, joins, epoch, currentRoom,
                   closePending, keyVars, handlerVars, dc, transportUp,
                   nextKey, sigVars, meshVars, unitVars>>

\* socket.on('user-left'): closePeerConnection(socketId).
UserLeft(e) ==
    /\ relay[e] # <<>>
    /\ Head(relay[e]).type = "user-left"
    /\ relay' = Pop(e)
    /\ ClosePeerConnection(e)
    /\ UNCHANGED <<participants, partKey, joins, epoch, currentRoom,
                   publicKey, isInit, pcEpoch, signalingManagers, chanInit,
                   audioH, keyVars, dc, nextKey, histVars, sigVars, meshVars, unitVars>>

(***************************************************************************)
(* The transport between the two current peer connections.                 *)
(***************************************************************************)

\* Each link was created for the membership its peer holds now.
LinksMatch ==
    \A e \in Ends : peerConnections[e] /\ pcEpoch[e] = epoch[Peer(e)]

\* The offer of the initiator was answered and the candidates were exchanged
\* (SignalingManager, modelled in SpecSig): the transport is connected.
Negotiated ==
    /\ ~transportUp
    /\ LinksMatch
    /\ \A e \in Ends : connectionState[e] = "new" /\ signalingManagers[e]
    /\ \E e \in Ends : isInit[e] /\ readyState[e] = "connecting"
    /\ transportUp' = TRUE
    /\ connectionState' = [e \in Ends |-> "connected"]
    /\ dc' = [e \in Ends |-> {}]
    /\ UNCHANGED <<relayVars, currentRoom, peerConnections, publicKey, isInit,
                   pcEpoch, signalingManagers, dataChannels, readyState,
                   chanInit, closePending, keyVars, handlerVars, nextKey,
                   histVars, sigVars, meshVars, unitVars>>

\* peerConnection.onconnectionstatechange.  failed and disconnected discard
\* the session key, the secure flag and the manager of the peer; the
\* transport and the data channel stay in their maps.
ConnectionStateChange(e, state) ==
    /\ peerConnections[e]
    /\ \/ state = "disconnected" /\ connectionState[e] = "connected"
       \/ state = "connected" /\ connectionState[e] = "disconnected" /\ transportUp
       \/ state = "failed" /\ connectionState[e] \in {"new", "connected", "disconnected"}
    /\ connectionState' = [connectionState EXCEPT ![e] = state]
    /\ transportUp' = (transportUp /\ state # "failed")
    /\ IF state \in {"failed", "disconnected"}
       THEN /\ peerSessionKeys' = [peerSessionKeys EXCEPT ![e] = NoKey]
            /\ secureChannels' = [secureChannels EXCEPT ![e] = FALSE]
            /\ signalingManagers' = [signalingManagers EXCEPT ![e] = FALSE]
       ELSE UNCHANGED <<keyVars, signalingManagers>>
    /\ UNCHANGED <<relayVars, currentRoom, peerConnections, publicKey, isInit,
                   pcEpoch, dataChannels, readyState, chanInit, closePending,
                   handlerVars, dc, nextKey, histVars, sigVars, meshVars, unitVars>>

(***************************************************************************)
(* VoiceEngine.setupDataChannel and the data channel's events.             *)
(***************************************************************************)

\* peerConnection.ondatachannel of a link that was not created as initiator:
\* setupDataChannel(event.channel, peerId, false).
OnDataChannel(e) ==
    /\ transportUp
    /\ peerConnections[e]
    /\ ~isInit[e]
    /\ isInit[Peer(e)]
    /\ readyState[e] = "none"
    /\ dataChannels' = [dataChannels EXCEPT ![e] = TRUE]
    /\ readyState' = [readyState EXCEPT ![e] = "connecting"]
    /\ chanInit' = [chanInit EXCEPT ![e] = FALSE]
    /\ UNCHANGED <<relayVars, currentRoom, peerConnections, publicKey, isInit,
                   pcEpoch, connectionState, signalingManagers, closePending,
                   keyVars, handlerVars, dc, transportUp, nextKey, histVars,
                   sigVars, meshVars, unitVars>>

\* onopen generating a key on whichever end the channel opens.
OpenGeneratesKeyAnyEnd(e) ==
    /\ peerConnections[e]
    /\ publicKey[e] # "none"
    /\ peerSessionKeys[e] = NoKey

\* The condition under which onopen generates a session key.
OpenGeneratesKey(e) ==
    /\ chanInit[e]
    /\ peerConnections[e]
    /\ publicKey[e] # "none"
    /\ peerSessionKeys[e] = NoKey

\* dataChannel.onopen, up to its first await (generateSessionKey).
OnOpen(e) ==
    /\ transportUp
    /\ readyState[e] = "connecting"
    /\ openH[e].st = "idle"
    /\ readyState' = [readyState EXCEPT ![e] = "open"]
    /\ IF OpenGeneratesKey(e)
       THEN /\ openH' = [openH EXCEPT ![e] = [st |-> "generating", live |-> TRUE,
                                             key |-> NoKey, pub |-> publicKey[e]]]
            /\ genCount' = [genCount EXCEPT ![e] = @ + 1]
       ELSE UNCHANGED <<openH, genCount>>
    /\ UNCHANGED <<relayVars, currentRoom, peerConnections, publicKey, isInit,
                   pcEpoch, connectionState, signalingManagers, dataChannels,
                   chanInit, closePending, keyVars, keyH, audioH, bcastH, dc,
                   transportUp, nextKey, keyFailed, sigVars, meshVars, unitVars>>

\* onopen after generateSessionKey: the key is stored for the peer
\* identifier, then encryptSessionKey is awaited.
OpenGenerated(e) ==
    /\ openH[e].st = "generating"
    /\ peerSessionKeys' = [peerSessionKeys EXCEPT ![e] = nextKey]
    /\ nextKey' = nextKey + 1
    /\ openH' = [openH EXCEPT ![e].st = "wrapping", ![e].key = nextKey]
    /\ UNCHANGED <<relayVars, currentRoom, linkVars, secureChannels, keyH,
                   audioH, bcastH, dc, transportUp, histVars, sigVars, meshVars, unitVars>>

KeyMsg(k, pub) == [type |-> "key", key |-> k, wrappedFor |-> pub, secure |-> FALSE]

KeyAckMsg == [type |-> "key-ack", key |-> NoKey, wrappedFor |-> "none", secure |-> FALSE]

AudioMsg(k, sec) == [type |-> "audio", key |-> k, wrappedFor |-> "none", secure |-> sec]

\* onopen after encryptSessionKey: the key message is sent; send throws on a
\* closed channel and the handler's catch swallows it.
OpenWrapped(e) ==
    /\ openH[e].st = "wrapping"
    /\ openH' = [openH EXCEPT ![e] = IdleOpen]
    /\ IF openH[e].live
       THEN dc' = [dc EXCEPT ![e] = @ \cup {KeyMsg(openH[e].key, openH[e].pub)}]
       ELSE UNCHANGED dc
    /\ UNCHANGED <<relayVars, currentRoom, linkVars, keyVars, keyH, audioH,
                   bcastH, transportUp, nextKey, histVars, sigVars, meshVars, unitVars>>

\* The data channel of e is closed from the far side or with the transport:
\* its close event is queued.
RemoteClose(e) ==
    /\ readyState[e] = "open"
    /\ ~transportUp
    /\ readyState' = [readyState EXCEPT ![e] = "closed"]
    /\ closePending' = [closePending EXCEPT ![e] = TRUE]
    /\ openH' = Unlive(openH, e)
    /\ keyH' = Unlive(keyH, e)
    /\ bcastH' = Unlive(bcastH, e)
    /\ UNCHANGED <<relayVars, currentRoom, peerConnections, publicKey, isInit,
                   pcEpoch, connectionState, signalingManagers, dataChannels,
                   chanInit, keyVars, audioH, dc, transportUp, nextKey,
                   histVars, sigVars, meshVars, unitVars>>

\* dataChannel.onclose: the map entry and the secure flag of the peer
\* identifier are deleted.
OnClose(e) ==
    /\ closePending[e]
    /\ closePending' = [closePending EXCEPT ![e] = FALSE]
    /\ dataChannels' = [dataChannels EXCEPT ![e] = FALSE]
    /\ secureChannels' = [secureChannels EXCEPT ![e] = FALSE]
    /\ UNCHANGED <<relayVars, currentRoom, peerConnections, publicKey, isInit,
                   pcEpoch, connectionState, signalingManagers, readyState,
                   chanInit, peerSessionKeys, handlerVars, dc, transportUp,
                   nextKey, histVars, sigVars, meshVars, unitVars>>

\* The far end's channel object is the other end of e's: one of the two was
\* made by createDataChannel and the other arrived through ondatachannel.
Deliverable(e) ==
    /\ transportUp
    /\ readyState[e] = "open"
    /\ chanInit[e] # chanInit[Peer(e)]

Take(e, m) == [dc EXCEPT ![Peer(e)] = @ \ {m}]

\* A decryptSessionKey that returns key material whatever it was given.
DecryptSessionKeyUnchecked(wrappedFor, k) == k

\* decryptSessionKey(raw): the chunks decrypt under the receiver's private
\* key only when they were encrypted under its current public key.
DecryptSessionKey(wrappedFor, k) == IF wrappedFor = "good" THEN k ELSE NoKey

\* dataChannel.onmessage, type key, up to its await (decryptSessionKey).
RecvKey(e, m) ==
    /\ Deliverable(e)
    /\ m \in dc[Peer(e)]
    /\ m.type = "key"
    /\ keyH[e].st = "idle"
    /\ dc' = Take(e, m)
    /\ keyH' = [keyH EXCEPT ![e] = [st |-> "unwrapping", live |-> TRUE,
                                   key |-> m.key, wrappedFor |-> m.wrappedFor]]
    /\ UNCHANGED <<relayVars, currentRoom, linkVars, keyVars, openH, audioH,
                   bcastH, transportUp, nextKey, histVars, sigVars, meshVars, unitVars>>

\* onmessage, type key, after decryptSessionKey.  On success the key is
\* stored, key-ack is sent and the peer is marked secure; send throws on a
\* closed channel and the inner catch ends the handler.  On failure the inner
\* catch logs and nothing else happens.
KeyUnwrapped(e) ==
    /\ keyH[e].st = "unwrapping"
    /\ keyH' = [keyH EXCEPT ![e] = IdleKey]
    /\ LET k == DecryptSessionKey(keyH[e].wrappedFor, keyH[e].key) IN
       IF k # NoKey
       THEN /\ peerSessionKeys' = [peerSessionKeys EXCEPT ![e] = k]
            /\ IF keyH[e].live
               THEN /\ dc' = [dc EXCEPT ![e] = @ \cup {KeyAckMsg}]
                    /\ secureChannels' = [secureChannels EXCEPT ![e] = TRUE]
               ELSE UNCHANGED <<dc, secureChannels>>
            /\ UNCHANGED keyFailed
       ELSE /\ keyFailed' = [keyFailed EXCEPT ![e] = TRUE]
            /\ UNCHANGED <<peerSessionKeys, secureChannels, dc>>
    /\ UNCHANGED <<relayVars, currentRoom, linkVars, openH, audioH, bcastH,
                   transportUp, nextKey, genCount, sigVars, meshVars, unitVars>>

\* onmessage, type key-ack: the peer is marked secure.
RecvKeyAck(e, m) ==
    /\ Deliverable(e)
    /\ m \in dc[Peer(e)]
    /\ m.type = "key-ack"
    /\ dc' = Take(e, m)
    /\ secureChannels' = [secureChannels EXCEPT ![e] = TRUE]
    /\ UNCHANGED <<relayVars, currentRoom, linkVars, peerSessionKeys,
                   handlerVars, transportUp, nextKey, histVars, sigVars, meshVars, unitVars>>

\* The condition under which handleIncomingAudio decrypts a frame.
AudioAccepted(e) == peerSessionKeys[e] # NoKey

\* onmessage, type audio: handleIncomingAudio up to its await
\* (decryptAudioAES with the stored session key).
RecvAudio(e, m) ==
    /\ Deliverable(e)
    /\ m \in dc[Peer(e)]
    /\ m.type = "audio"
    /\ audioH[e].st = "idle"
    /\ dc' = Take(e, m)
    /\ IF AudioAccepted(e)
       THEN audioH' = [audioH EXCEPT ![e] = [st |-> "decrypting",
                                            key |-> peerSessionKeys[e],
                                            msgKey |-> m.key,
                                            secure |-> secureChannels[e]]]
       ELSE UNCHANGED audioH
    /\ UNCHANGED <<relayVars, currentRoom, linkVars, keyVars, openH, keyH,
                   bcastH, transportUp, nextKey, histVars, sigVars, meshVars, unitVars>>

\* handleIncomingAudio after decryptAudioAES: a frame sealed under the same
\* key is played; any other fails authentication and the catch drops it.
AudioDecrypted(e) ==
    /\ audioH[e].st = "decrypting"
    /\ audioH' = [audioH EXCEPT ![e] = IdleAudio]
    /\ UNCHANGED <<relayVars, currentRoom, linkVars, keyVars, openH, keyH,
                   bcastH, dc, transportUp, nextKey, histVars, sigVars, meshVars, unitVars>>

\* broadcastEncryptedAudio without its secureChannels test.
BroadcastToAnyKeyed(e) ==
    /\ dataChannels[e]
    /\ readyState[e] = "open"
    /\ peerSessionKeys[e] # NoKey

\* The condition under which broadcastEncryptedAudio encrypts for the peer.
BroadcastTo(e) ==
    /\ dataChannels[e]
    /\ secureChannels[e]
    /\ readyState[e] = "open"
    /\ peerSessionKeys[e] # NoKey

\* broadcastEncryptedAudio(audioData) for a captured frame, up to its await
\* (encryptAudioAES); bufferedAmount may be over the threshold.
Broadcast(e, congested) ==
    /\ currentRoom[e]
    /\ bcastH[e].st = "idle"
    /\ IF BroadcastTo(e) /\ ~congested
       THEN bcastH' = [bcastH EXCEPT ![e] = [st |-> "encrypting", live |-> TRUE,
                                            key |-> peerSessionKeys[e],
                                            secure |-> secureChannels[e]]]
       ELSE UNCHANGED bcastH
    /\ UNCHANGED <<relayVars, currentRoom, linkVars, keyVars, openH, keyH,
                   audioH, dc, transportUp, nextKey, histVars, sigVars, meshVars, unitVars>>

\* broadcastEncryptedAudio after encryptAudioAES: the audio message is sent;
\* send throws on a closed channel and the catch swallows it.
BroadcastSend(e) ==
    /\ bcastH[e].st = "encrypting"
    /\ bcastH' = [bcastH EXCEPT ![e] = IdleBcast]
    /\ IF bcastH[e].live
       THEN dc' = [dc EXCEPT ![e] = @ \cup {AudioMsg(bcastH[e].key, bcastH[e].secure)}]
       ELSE UNCHANGED dc
    /\ UNCHANGED <<relayVars, currentRoom, linkVars, keyVars, openH, keyH,
                   audioH, transportUp, nextKey, histVars, sigVars, meshVars, unitVars>>

(***************************************************************************)
(* Spec: the two engines and the relay.                                    *)
(***************************************************************************)

EngInit ==
    /\ participants = {}
    /\ partKey = [e \in Ends |-> "none"]
    /\ relay = [e \in Ends |-> <<>>]
    /\ joins = 0
    /\ epoch = [e \in Ends |-> 0]
    /\ currentRoom = [e \in Ends |-> FALSE]
    /\ peerConnections = [e \in Ends |-> FALSE]
    /\ publicKey = [e \in Ends |-> "none"]
    /\ isInit = [e \in Ends |-> FALSE]
    /\ pcEpoch = [e \in Ends |-> 0]
    /\ connectionState = [e \in Ends |-> "closed"]
    /\ signalingManagers = [e \in Ends |-> FALSE]
    /\ dataChannels = [e \in Ends |-> FALSE]
    /\ readyState = [e \in Ends |-> "none"]
    /\ chanInit = [e \in Ends |-> FALSE]
    /\ closePending = [e \in Ends |-> FALSE]
    /\ peerSessionKeys = [e \in Ends |-> NoKey]
    /\ secureChannels = [e \in Ends |-> FALSE]
    /\ openH = [e \in Ends |-> IdleOpen]
    /\ keyH = [e \in Ends |-> IdleKey]
    /\ audioH = [e \in Ends |-> IdleAudio]
    /\ bcastH = [e \in Ends |-> IdleBcast]
    /\ dc = [e \in Ends |-> {}]
    /\ transportUp = FALSE
    /\ nextKey = 1
    /\ genCount = [e \in Ends |-> 0]
    /\ keyFailed = [e \in Ends |-> FALSE]

SigIdle ==
    /\ polite = [e \in Ends |-> FALSE]
    /\ makingOffer = [e \in Ends |-> FALSE]
    /\ ignoreOffer = [e \in Ends |-> FALSE]
    /\ isSettingRemoteAnswerPending = [e \in Ends |-> FALSE]
    /\ signalingState = [e \in Ends |-> "stable"]
    /\ pendLocal = [e \in Ends |-> "none"]
    /\ curLocal = [e \in Ends |-> "none"]
    /\ chain = [e \in Ends |-> <<>>]
    /\ sigRelay = [e \in Ends |-> <<>>]
    /\ nnFired = [e \in Ends |-> 0]
    /\ strays = 0
    /\ offersSent = [e \in Ends |-> 0]
    /\ answersSent = [e \in Ends |-> 0]
    /\ accepted = [e \in Ends |-> 0]
    /\ rollbacks = [e \in Ends |-> 0]
    /\ ignored = [e \in Ends |-> 0]
    /\ collided = [e \in Ends |-> FALSE]
    /\ faulted = FALSE
    /\ lastAnswer = [e \in Ends |-> "none"]

IdleLoop == [st |-> "idle", rest |-> <<>>]

IdleMesh == [st |-> "idle", pos |-> 0]

\* The engine as constructed, seen with all the peers of its room: every map
\* is empty and no handler is running.
MeshIdle ==
    /\ listed = <<>>
    /\ rpH = IdleLoop
    /\ linked = {}
    /\ channels = <<>>
    /\ secured = {}
    /\ meshH = IdleMesh
    /\ threwFor = {}
    /\ framesTo = {}
    /\ lost = {}

NoAudio == [there |-> FALSE, iv |-> <<>>, data |-> <<>>]

NoOrigin == [key |-> NoKey, frame |-> <<>>]

\* No audio was encrypted or received.
AudioQuiet ==
    /\ wire = NoAudio
    /\ origin = NoOrigin
    /\ tampered = FALSE
    /\ sealed = {}
    /\ nonces = <<>>
    /\ played = <<>>
    /\ handled = <<>>

AesIdle == txKey = NoKey /\ rxKey = NoKey /\ AudioQuiet

\* The parts of the program modelled on their own are at rest.
NoValue == [rep |-> "none", bytes |-> <<>>]

UnwrapIdle ==
    [st |-> "idle", err |-> "none", chunks |-> <<>>, extents |-> <<>>,
     at |-> 0, top |-> 0, decrypts |-> 0, out |-> NoValue]

NoWrap == [kind |-> "none", val |-> NoValue, pub |-> 0]

WrapIdle ==
    /\ useNative = [e \in Ends |-> TRUE]
    /\ rxKeyPair = 1
    /\ wrapped = NoWrap
    /\ stream = <<>>
    /\ cut = "no"
    /\ unwrapSt = UnwrapIdle

JoinQuiet ==
    /\ curRoom = "none"
    /\ isConnected = FALSE
    /\ joinCalls = <<>>
    /\ analyser = FALSE
    /\ rafLoops = 0
    /\ speakingHistory = <<>>
    /\ isSpeaking = FALSE
    /\ hasLinks = FALSE
    /\ emits = <<>>
    /\ spoke = <<>>
    /\ lastSample = FALSE
    /\ ticks = 0

JoinIdle == sockSt = "none" /\ JoinQuiet

InitializeIdle ==
    /\ isInitialized = FALSE
    /\ sockets = <<>>
    /\ listenerSets = 0
    /\ initCalls = 0

IceIdle ==
    /\ iceManager = FALSE
    /\ iceRemote = FALSE
    /\ iceChain = <<>>
    /\ pendingCandidates = {}
    /\ iceArrived = {}
    /\ iceApplied = {}
    /\ iceLost = {}

PersonalIdle ==
    /\ roomsDb = <<>>
    /\ personalReq = [u \in {"u1", "u2"} |-> "none"]
    /\ personalResp = <<>>

ServerIdle ==
    /\ liveSockets = {"s1", "s2", "s3"}
    /\ authPending = {}
    /\ connectedUsers = {}
    /\ userRoom = {}
    /\ activeRooms = FALSE
    /\ roomParticipants = [u \in {"u1", "u2"} |-> "none"]
    /\ ioRoom = {}
    /\ addPending = {}
    /\ told = {}
    /\ owed = {}
    /\ departed = {}
    /\ relayJoins = 0

DeafenIdle ==
    /\ audioNodes = {}
    /\ gainValue = [p \in {"p1", "p2", "p3"} |-> 0]
    /\ deafened = FALSE
    /\ nodesBefore = {}
    /\ gainBefore = [p \in {"p1", "p2", "p3"} |-> 0]

WorkletIdle ==
    /\ buffer = <<>>
    /\ bytesWritten = 0
    /\ posted = <<>>
    /\ fedSamples = 0
    /\ blocksFed = 0
    /\ processThrew = FALSE

LaterIdle == IceIdle /\ PersonalIdle /\ ServerIdle /\ DeafenIdle /\ WorkletIdle

UnitIdle == AesIdle /\ WrapIdle /\ JoinIdle /\ InitializeIdle /\ LaterIdle

\* The pair of engines, their managers and the engine with its peers, as
\* constructed.
PairIdle == EngInit /\ SigIdle /\ MeshIdle

Init == EngInit /\ SigIdle /\ MeshIdle /\ UnitIdle

Next ==
    \/ \E e \in Ends : JoinRoom(e)
    \/ \E e \in Ends : LeaveRoom(e)
    \/ \E e \in Ends : RoomParticipants(e)
    \/ \E e \in Ends : UserJoined(e)
    \/ \E e \in Ends : UserLeft(e)
    \/ Negotiated
    \/ \E e \in Ends, state \in {"connected", "disconnected", "failed"} :
          ConnectionStateChange(e, state)
    \/ \E e \in Ends : OnDataChannel(e)
    \/ \E e \in Ends : OnOpen(e)
    \/ \E e \in Ends : OpenGenerated(e)
    \/ \E e \in Ends : OpenWrapped(e)
    \/ \E e \in Ends : RemoteClose(e)
    \/ \E e \in Ends : OnClose(e)
    \/ \E e \in Ends : \E m \in dc[Peer(e)] : RecvKey(e, m)
    \/ \E e \in Ends : KeyUnwrapped(e)
    \/ \E e \in Ends : \E m \in dc[Peer(e)] : RecvKeyAck(e, m)
    \/ \E e \in Ends : \E m \in dc[Peer(e)] : RecvAudio(e, m)
    \/ \E e \in Ends : AudioDecrypted(e)
    \/ \E e \in Ends, congested \in BOOLEAN : Broadcast(e, congested)
    \/ \E e \in Ends : BroadcastSend(e)

Spec == Init /\ [][Next]_vars

\* A session in progress: a joined first, i joined second and created the
\* link as initiator, the transport connected, the key exchange completed
\* and both ends marked the other secure.  Both clients sent their public
\* key with join-room.
Established(i) ==
    /\ participants = Ends
    /\ partKey = [e \in Ends |-> "good"]
    /\ relay = [e \in Ends |-> <<>>]
    /\ joins = 0
    /\ epoch = [e \in Ends |-> 1]
    /\ currentRoom = [e \in Ends |-> TRUE]
    /\ peerConnections = [e \in Ends |-> TRUE]
    /\ publicKey = [e \in Ends |-> "good"]
    /\ isInit = [e \in Ends |-> e = i]
    /\ pcEpoch = [e \in Ends |-> 1]
    /\ connectionState = [e \in Ends |-> "connected"]
    /\ signalingManagers = [e \in Ends |-> TRUE]
    /\ dataChannels = [e \in Ends |-> TRUE]
    /\ readyState = [e \in Ends |-> "open"]
    /\ chanInit = [e \in Ends |-> e = i]
    /\ closePending = [e \in Ends |-> FALSE]
    /\ peerSessionKeys = [e \in Ends |-> 1]
    /\ secureChannels = [e \in Ends |-> TRUE]
    /\ openH = [e \in Ends |-> IdleOpen]
    /\ keyH = [e \in Ends |-> IdleKey]
    /\ audioH = [e \in Ends |-> IdleAudio]
    /\ bcastH = [e \in Ends |-> IdleBcast]
    /\ dc = [e \in Ends |-> {}]
    /\ transportUp = TRUE
    /\ nextKey = 2
    /\ genCount = [e \in Ends |-> IF e = i THEN 1 ELSE 0]
    /\ keyFailed = [e \in Ends |-> FALSE]

\* The engines in a session in progress; MaxJoins further join-room
\* requests follow.
InitRejoin ==
    (\E i \in Ends : Established(i)) /\ SigIdle /\ MeshIdle /\ UnitIdle

\* Leaving and rejoining, the links made and closed for it, and the opening
\* of the new link's data channel; no message is exchanged over the channel.
NextRejoin ==
    \/ \E e \in Ends : JoinRoom(e)
    \/ \E e \in Ends : LeaveRoom(e)
    \/ \E e \in Ends : RoomParticipants(e)
    \/ \E e \in Ends : UserJoined(e)
    \/ \E e \in Ends : UserLeft(e)
    \/ Negotiated
    \/ \E e \in Ends : OnDataChannel(e)
    \/ \E e \in Ends : OnOpen(e)
    \/ \E e \in Ends : RemoteClose(e)
    \/ \E e \in Ends : OnClose(e)

SpecRejoin == InitRejoin /\ [][NextRejoin]_vars

\* The steps the clients take by themselves: a relayed message is handled,
\* the transport connects, a data channel event is dispatched.
RejoinProgress ==
    \/ \E e \in Ends : RoomParticipants(e)
    \/ \E e \in Ends : UserJoined(e)
    \/ \E e \in Ends : UserLeft(e)
    \/ Negotiated
    \/ \E e \in Ends : OnDataChannel(e)
    \/ \E e \in Ends : OnOpen(e)
    \/ \E e \in Ends : RemoteClose(e)
    \/ \E e \in Ends : OnClose(e)

\* Leaving and rejoining are the users' choice; everything else is bound to
\* happen: the relay delivers in order, the event loops keep running.
NextRejoinFair ==
    \/ \E e \in Ends : JoinRoom(e)
    \/ \E e \in Ends : LeaveRoom(e)
    \/ RejoinProgress

SpecRejoinFair ==
    /\ InitRejoin
    /\ [][NextRejoinFair]_vars
    /\ \A e \in Ends :
          /\ WF_vars(RoomParticipants(e))
          /\ WF_vars(UserJoined(e))
          /\ WF_vars(UserLeft(e))
          /\ WF_vars(OnDataChannel(e))
          /\ WF_vars(OnOpen(e))
          /\ WF_vars(RemoteClose(e))
          /\ WF_vars(OnClose(e))
    /\ WF_vars(Negotiated)

\* A session in progress in which A joined without a public key (none sent,
\* none on its user record) and B joined after it with its key: B created
\* the link as initiator with peerConnection.publicKey null, the channel
\* opened on both ends and onopen of B skipped the key generation.
Unkeyed ==
    /\ participants = Ends
    /\ partKey = [e \in Ends |-> IF e = "A" THEN "none" ELSE "good"]
    /\ relay = [e \in Ends |-> <<>>]
    /\ joins = 0
    /\ epoch = [e \in Ends |-> 1]
    /\ currentRoom = [e \in Ends |-> TRUE]
    /\ peerConnections = [e \in Ends |-> TRUE]
    /\ publicKey = [e \in Ends |-> IF e = "A" THEN "good" ELSE "none"]
    /\ isInit = [e \in Ends |-> e = "B"]
    /\ pcEpoch = [e \in Ends |-> 1]
    /\ connectionState = [e \in Ends |-> "connected"]
    /\ signalingManagers = [e \in Ends |-> TRUE]
    /\ dataChannels = [e \in Ends |-> TRUE]
    /\ readyState = [e \in Ends |-> "open"]
    /\ chanInit = [e \in Ends |-> e = "B"]
    /\ closePending = [e \in Ends |-> FALSE]
    /\ peerSessionKeys = [e \in Ends |-> NoKey]
    /\ secureChannels = [e \in Ends |-> FALSE]
    /\ openH = [e \in Ends |-> IdleOpen]
    /\ keyH = [e \in Ends |-> IdleKey]
    /\ audioH = [e \in Ends |-> IdleAudio]
    /\ bcastH = [e \in Ends |-> IdleBcast]
    /\ dc = [e \in Ends |-> {}]
    /\ transportUp = TRUE
    /\ nextKey = 1
    /\ genCount = [e \in Ends |-> 0]
    /\ keyFailed = [e \in Ends |-> FALSE]

InitRetry == Unkeyed /\ SigIdle /\ MeshIdle /\ UnitIdle

\* Leaving and rejoining from there, the links made and closed for it, and
\* the key exchange over the new links' data channels.
NextRetry ==
    \/ \E e \in Ends : JoinRoom(e)
    \/ \E e \in Ends : LeaveRoom(e)
    \/ \E e \in Ends : RoomParticipants(e)
    \/ \E e \in Ends : UserJoined(e)
    \/ \E e \in Ends : UserLeft(e)
    \/ Negotiated
    \/ \E e \in Ends : OnDataChannel(e)
    \/ \E e \in Ends : OnOpen(e)
    \/ \E e \in Ends : OpenGenerated(e)
    \/ \E e \in Ends : OpenWrapped(e)
    \/ \E e \in Ends : RemoteClose(e)
    \/ \E e \in Ends : OnClose(e)
    \/ \E e \in Ends : \E m \in dc[Peer(e)] : RecvKey(e, m)
    \/ \E e \in Ends : KeyUnwrapped(e)
    \/ \E e \in Ends : \E m \in dc[Peer(e)] : RecvKeyAck(e, m)

SpecRetry == InitRetry /\ [][NextRetry]_vars

(***************************************************************************)
(* One VoiceEngine and the several peers of its room: the loop of the      *)
(* room-participants handler and the loop of broadcastEncryptedAudio.      *)
(***************************************************************************)

\* The socket ids of the other participants.
Peers == {"p1", "p2", "p3"}

\* The participants arrays the relay can send: getParticipants(roomId)
\* without the joiner's own entry, every socket id at most once.
RECURSIVE Lists(_)
Lists(n) ==
    IF n = 0 THEN {<<>>}
    ELSE LET shorter == Lists(n - 1)
         IN  shorter \cup
             {Append(l, p) : l \in shorter, p \in Peers}

ParticipantLists ==
    {l \in Lists(Cardinality(Peers)) :
        \A i, j \in 1..Len(l) : i # j => l[i] # l[j]}

\* What a call of createPeerConnection(p, ..., true) does: it returns the
\* link, or `new RTCPeerConnection` throws, or createDataChannel throws
\* after the transport was stored in peerConnections.
CreateOutcomes == {"made", "throwsNew", "throwsChannel"}

CreateLink(p, outcome) ==
    /\ linked' = IF outcome = "throwsNew" THEN linked ELSE linked \cup {p}
    /\ channels' = IF outcome = "made" THEN Append(channels, p) ELSE channels
    /\ threwFor' = IF outcome = "made" THEN threwFor ELSE threwFor \cup {p}

\* One turn of the handler's for-loop over rest: createPeerConnection for
\* the first entry, awaited.  The try/catch encloses the loop: a throw ends
\* the handler with the rest of the array unvisited.
LoopTurn(rest, outcome) ==
    /\ CreateLink(Head(rest), outcome)
    /\ rpH' = IF outcome = "made" /\ Tail(rest) # <<>>
              THEN [st |-> "awaiting", rest |-> Tail(rest)]
              ELSE IdleLoop

\* socket.on('room-participants') of an engine that has just joined, up to
\* the first await.
RoomParticipantsList(list, outcome) ==
    /\ listed = <<>>
    /\ rpH.st = "idle"
    /\ list # <<>>
    /\ listed' = list
    /\ LoopTurn(list, outcome)
    /\ UNCHANGED <<secured, meshH, framesTo, lost, engVars, sigVars, unitVars>>

\* The handler resumes after `await this.createPeerConnection(...)` with the
\* next entry of the array.
RoomParticipantsResume(outcome) ==
    /\ rpH.st = "awaiting"
    /\ LoopTurn(rpH.rest, outcome)
    /\ UNCHANGED <<listed, secured, meshH, framesTo, lost, engVars, sigVars, unitVars>>

\* onmessage, key-ack branch, on the channel of p: negotiation and the key
\* exchange (Spec) completed on that link.
KeyAcked(p) ==
    /\ \E i \in 1..Len(channels) : channels[i] = p
    /\ p \notin secured
    /\ secured' = secured \cup {p}
    /\ UNCHANGED <<listed, rpH, linked, channels, meshH, threwFor, framesTo,
                   lost, engVars, sigVars, unitVars>>

\* The position, from pos on, of the next entry of dataChannels that passes
\* the secureChannels test; 0 when the iteration is over.
NextSecure(pos) ==
    LET S == {i \in pos..Len(channels) : channels[i] \in secured}
    IN  IF S = {} THEN 0 ELSE CHOOSE i \in S : \A j \in S : i <= j

MeshAt(pos) ==
    IF NextSecure(pos) = 0 THEN IdleMesh
    ELSE [st |-> "encrypting", pos |-> NextSecure(pos)]

\* broadcastEncryptedAudio(audioData) up to its first await: the entries
\* that are not secure are passed over, encryptAudioAES starts for the first
\* secure one.
BroadcastAll ==
    /\ meshH.st = "idle"
    /\ NextSecure(1) # 0
    /\ meshH' = MeshAt(1)
    /\ framesTo' = {}
    /\ lost' = {}
    /\ UNCHANGED <<listed, rpH, linked, channels, secured, threwFor, engVars, sigVars, unitVars>>

SendOutcomes == {"sent", "encryptThrows", "sendThrows"}

\* After encryptAudioAES: the message is sent; a throw of either is caught
\* inside the loop body, and the iteration goes on to the next entry.
BroadcastAllSend(outcome) ==
    /\ meshH.st = "encrypting"
    /\ IF outcome = "sent"
       THEN /\ framesTo' = framesTo \cup {channels[meshH.pos]}
            /\ UNCHANGED lost
       ELSE /\ lost' = lost \cup {channels[meshH.pos]}
            /\ UNCHANGED framesTo
    /\ meshH' = MeshAt(meshH.pos + 1)
    /\ UNCHANGED <<listed, rpH, linked, channels, secured, threwFor, engVars, sigVars, unitVars>>

NextMesh ==
    \/ \E list \in ParticipantLists, outcome \in CreateOutcomes :
          RoomParticipantsList(list, outcome)
    \/ \E outcome \in CreateOutcomes : RoomParticipantsResume(outcome)
    \/ \E p \in Peers : KeyAcked(p)
    \/ BroadcastAll
    \/ \E outcome \in SendOutcomes : BroadcastAllSend(outcome)

SpecMesh == Init /\ [][NextMesh]_vars

(***************************************************************************)
(* The audio path of one link: encryptAudioAES, the audio message that     *)
(* broadcastEncryptedAudio builds from its result, handleIncomingAudio and *)
(* decryptAudioAES.  A payload is a sequence of bytes.  AES-GCM is         *)
(* modelled by a cipher with the same interface: a keystream derived from  *)
(* the key and the nonce, and a tag computed over key, nonce and           *)
(* ciphertext that changes when any one byte of them changes.              *)
(***************************************************************************)

IvLength == 12

TagLength == 16

\* Encryptions made by the sender.
MaxFrames == 2

SessionKeys == {1, 2}

\* Float32Array buffers posted by the audio worklet: whole samples.
Frames == {<<0, 0, 0, 0>>, <<1, 2, 3, 4>>, <<0, 0, 128, 63, 255, 255, 127, 127>>}

\* The values getRandomValues(new Uint8Array(12)) can return.
Ivs == {[i \in 1..IvLength |-> 0], [i \in 1..IvLength |-> (21 * i) % 256]}

RECURSIVE SumBytes(_)
SumBytes(b) == IF b = <<>> THEN 0 ELSE Head(b) + SumBytes(Tail(b))

Keystream(k, iv, i) == (31 * k + iv[((i - 1) % IvLength) + 1] + i) % 256

GcmEncrypt(k, iv, pt) ==
    [i \in 1..Len(pt) |-> (pt[i] + Keystream(k, iv, i)) % 256]

GcmDecrypt(k, iv, ct) ==
    [i \in 1..Len(ct) |-> (ct[i] + 256 - Keystream(k, iv, i)) % 256]

GcmTag(k, iv, ct) ==
    [j \in 1..TagLength |-> (97 * k + j + SumBytes(iv) + SumBytes(ct)) % 256]

\* decryption without authentication.
VerifyTagNever(k, iv, ct, tag) == TRUE

\* The authentication AES-GCM decryption performs before it returns.
VerifyTag(k, iv, ct, tag) == tag = GcmTag(k, iv, ct)

\* encryptAudioAES(audioData, sessionKey) with the nonce it drew: the nonce,
\* then the ciphertext, then the tag.
EncryptAudioAES(pt, k, iv) == iv \o GcmEncrypt(k, iv, pt) \o GcmTag(k, iv, GcmEncrypt(k, iv, pt))

\* An audio message whose data array starts one byte early.
AudioMessageOverlapping(full) ==
    [there |-> TRUE,
     iv    |-> SubSeq(full, 1, IvLength),
     data  |-> SubSeq(full, IvLength, Len(full))]

\* broadcastEncryptedAudio: iv = fullBuffer.slice(0, 12), data =
\* fullBuffer.slice(12), both as arrays of numbers in the JSON message.
AudioMessage(full) ==
    [there |-> TRUE,
     iv    |-> SubSeq(full, 1, IvLength),
     data  |-> SubSeq(full, IvLength + 1, Len(full))]

\* handleIncomingAudio: combined = iv followed by data.
Combined(msg) == msg.iv \o msg.data

Failed == [ok |-> FALSE, frame |-> <<>>]

\* decryptAudioAES(data, sessionKey): the first 12 bytes are the nonce, the
\* last 16 of the rest the tag; it throws unless the tag verifies.
DecryptAudioAES(data, k) ==
    LET iv   == SubSeq(data, 1, IvLength)
        rest == SubSeq(data, IvLength + 1, Len(data))
        ct   == SubSeq(rest, 1, Len(rest) - TagLength)
        tag  == SubSeq(rest, Len(rest) - TagLength + 1, Len(rest))
    IN  IF Len(data) < IvLength + TagLength THEN Failed
        ELSE IF ~VerifyTag(k, iv, ct, tag) THEN Failed
        ELSE [ok |-> TRUE, frame |-> GcmDecrypt(k, iv, ct)]

\* The worklet posts a frame and broadcastEncryptedAudio encrypts it for the
\* peer and sends the audio message.
SendAudio(pt, iv) ==
    /\ ~wire.there
    /\ Len(nonces) < MaxFrames
    /\ wire' = AudioMessage(EncryptAudioAES(pt, txKey, iv))
    /\ origin' = [key |-> txKey, frame |-> pt]
    /\ tampered' = FALSE
    /\ sealed' = sealed \cup {[key |-> txKey, frame |-> pt,
                              payload |-> EncryptAudioAES(pt, txKey, iv)]}
    /\ nonces' = Append(nonces, [key |-> txKey, iv |-> iv])
    /\ UNCHANGED <<txKey, rxKey, played, handled, aesRest>>

AlterByte(b, i, d) == [b EXCEPT ![i] = (@ + d) % 256]

\* One byte of the message in flight is altered on its way: byte i of the
\* nonce, the ciphertext or the tag becomes another value.
Tamper(i, d) ==
    /\ wire.there
    /\ ~tampered
    /\ i \in 1..Len(Combined(wire))
    /\ wire' = IF i <= Len(wire.iv)
               THEN [wire EXCEPT !.iv = AlterByte(@, i, d)]
               ELSE [wire EXCEPT !.data = AlterByte(@, i - Len(wire.iv), d)]
    /\ tampered' = TRUE
    /\ UNCHANGED <<txKey, rxKey, origin, sealed, nonces, played, handled,
                   aesRest>>

\* onmessage, type audio: handleIncomingAudio(msg, peerId).  Without a
\* session key it returns; a decryption that throws, or a buffer that is
\* not a whole number of samples, ends in the catch; else the frame goes to
\* playAudio.
HandleIncomingAudio ==
    /\ wire.there
    /\ wire' = NoAudio
    /\ LET r == DecryptAudioAES(Combined(wire), rxKey) IN
       IF rxKey = NoKey
       THEN /\ handled' = Append(handled, "nokey")
            /\ UNCHANGED played
       ELSE IF r.ok /\ Len(r.frame) % 4 = 0
       THEN /\ handled' = Append(handled, "played")
            /\ played' = Append(played, r.frame)
       ELSE /\ handled' = Append(handled, "dropped")
            /\ UNCHANGED played
    /\ UNCHANGED <<txKey, rxKey, origin, tampered, sealed, nonces, aesRest>>

\* Two engines with a session key each for the link between them: the
\* sender's, and the one the receiver holds for the sender (none, the same,
\* or another).
InitAudio ==
    /\ PairIdle
    /\ txKey \in SessionKeys
    /\ rxKey \in SessionKeys \cup {NoKey}
    /\ AudioQuiet
    /\ WrapIdle
    /\ JoinIdle
    /\ InitializeIdle
    /\ LaterIdle

NextAudio ==
    \/ \E pt \in Frames, iv \in Ivs : SendAudio(pt, iv)
    \/ \E i \in 1..(IvLength + 8 + TagLength), d \in {1, 255} : Tamper(i, d)
    \/ HandleIncomingAudio

SpecAudio == InitAudio /\ [][NextAudio]_vars

(***************************************************************************)
(* The key wrap: encryptSessionKey and encryptAudio at the sender,         *)
(* decryptSessionKey and decryptAudio at the receiver.  A stream is a      *)
(* sequence of bytes.  RSA-OAEP is modelled by a cipher with the same      *)
(* interface: a chunk of at most 190 bytes becomes a block of 256 bytes    *)
(* that only the matching private key opens.                               *)
(***************************************************************************)

MAX_CHUNK_SIZE == 190

\* The ciphertext of one chunk under a 2048-bit key, in bytes.
RsaBlock == 256

\* new Uint8Array(4): the length prefix of a frame.
LengthBytes == 4

KeyPairs == {1, 2}

\* Raw AES-256 keys.
RawKeys == {[i \in 1..32 |-> i], [i \in 1..32 |-> (7 * i + 250) % 256]}

\* Buffers given to encryptAudio: empty, one byte, one full chunk, one byte
\* more than a chunk, and more.
DataLengths == {0, 1, 190, 191, 200}

DataOf(n) == [i \in 1..n |-> (3 * i + 1) % 256]

\* The values a byte of a length prefix is altered to.  The highest byte of
\* a prefix stays below 128 so that the lengths stay in the range of the
\* model checker's integers.
AlteredBytes == {0, 1, 5, 100}

MinOf(a, b) == IF a < b THEN a ELSE b

\* bytes.slice(from, to) of a typed array, 0-based and clamped as in
\* JavaScript.
Slice(b, from, to) == SubSeq(b, from + 1, MinOf(to, Len(b)))

\* generateSessionKey: a CryptoKey, or with forge a binary string.
GenerateSessionKey(native, raw) ==
    [rep |-> IF native THEN "CryptoKey" ELSE "string", bytes |-> raw]

\* exportSessionKey: the raw key as an ArrayBuffer, or with forge the key
\* itself.
ExportSessionKey(native, key) ==
    IF native THEN [rep |-> "ArrayBuffer", bytes |-> key.bytes] ELSE key

\* importSessionKey: a CryptoKey, or with forge its argument.
ImportSessionKey(native, rawKey) ==
    IF native THEN [rep |-> "CryptoKey", bytes |-> rawKey.bytes] ELSE rawKey

\* What subtle.importKey('raw', ..., 'AES-GCM') accepts.
ImportableLength(n) == n \in {16, 24, 32}

Groups(n) == (n + 2) \div 3

ByteOr0(s, i) == IF i <= Len(s) THEN s[i] ELSE 0

Pow(b, n) == IF n = 0 THEN 1 ELSE IF n = 1 THEN b ELSE IF n = 2 THEN b * b ELSE b * b * b

\* btoa of a binary string: four characters per three bytes, as the values
\* 0..63 of the base64 alphabet, 64 for the padding character.
Btoa(s) ==
    [c \in 1..(4 * Groups(Len(s))) |->
        LET g == (c - 1) \div 4
            p == (c - 1) % 4
            v == ByteOr0(s, 3 * g + 1) * 65536 + ByteOr0(s, 3 * g + 2) * 256
                 + ByteOr0(s, 3 * g + 3)
        IN  IF p >= 2 /\ 3 * g + p > Len(s) THEN 64
            ELSE (v \div Pow(64, 3 - p)) % 64]

PadCount(t) == Cardinality({c \in DOMAIN t : t[c] = 64})

Sextet(t, c) == IF t[c] = 64 THEN 0 ELSE t[c]

\* base64ToArrayBuffer: atob, then one byte per character code.
Base64ToArrayBuffer(t) ==
    [j \in 1..(3 * (Len(t) \div 4) - PadCount(t)) |->
        LET g == (j - 1) \div 3
            q == (j - 1) % 3
            v == Sextet(t, 4 * g + 1) * 262144 + Sextet(t, 4 * g + 2) * 4096
                 + Sextet(t, 4 * g + 3) * 64 + Sextet(t, 4 * g + 4)
        IN  (v \div Pow(256, 2 - q)) % 256]

\* encryptSessionKey, lines 618-622: the bytes handed to encryptAudio.
KeyData(native, key) ==
    LET rawKey == ExportSessionKey(native, key)
    IN  IF rawKey.rep = "ArrayBuffer" THEN rawKey.bytes
        ELSE Base64ToArrayBuffer(Btoa(rawKey.bytes))

\* RSA-OAEP encryption of one chunk for the key pair p.
RsaEncrypt(p, chunk) ==
    [i \in 1..RsaBlock |->
        IF i = 1 THEN p
        ELSE IF i = 2 THEN Len(chunk)
        ELSE IF i - 2 <= Len(chunk) THEN (chunk[i - 2] + 13 * p + i) % 256
        ELSE 0]

\* RSA-OAEP decryption with the private key of the pair q: it throws on a
\* block of another size, of another key pair, or with broken padding.
RsaOpens(q, block) ==
    /\ Len(block) = RsaBlock
    /\ block[1] = q
    /\ block[2] <= MAX_CHUNK_SIZE
    /\ \A i \in (block[2] + 3)..RsaBlock : block[i] = 0

RsaDecrypt(q, block) ==
    [i \in 1..block[2] |-> (block[i + 2] + 256 - ((13 * q + i + 2) % 256)) % 256]

\* view.setUint32(0, n, true): four bytes, lowest first.
SetUint32(n) ==
    <<n % 256, (n \div 256) % 256, (n \div 65536) % 256, (n \div 16777216) % 256>>

\* new DataView(buffer, offset, 4).getUint32(0, true).
GetUint32(b, offset) ==
    b[offset + 1] + 256 * b[offset + 2] + 65536 * b[offset + 3]
    + 16777216 * b[offset + 4]

\* encryptAudio, lines 345-348: chunks of at most MAX_CHUNK_SIZE bytes.
RECURSIVE SplitChunks(_)
SplitChunks(bytes) ==
    IF bytes = <<>> THEN <<>>
    ELSE <<Slice(bytes, 0, MAX_CHUNK_SIZE)>>
         \o SplitChunks(Slice(bytes, MAX_CHUNK_SIZE, Len(bytes)))

\* encryptAudio, the result: per encrypted chunk its length, then the chunk.
RECURSIVE FrameChunks(_)
FrameChunks(encryptedChunks) ==
    IF encryptedChunks = <<>> THEN <<>>
    ELSE SetUint32(Len(Head(encryptedChunks))) \o Head(encryptedChunks)
         \o FrameChunks(Tail(encryptedChunks))

EncryptAudio(audioData, p) ==
    LET chunks == SplitChunks(audioData)
    IN  FrameChunks([i \in DOMAIN chunks |-> RsaEncrypt(p, chunks[i])])

\* A parse loop that takes every declared length as it is.
ChunkFitsAlways(offset, chunkLength, length) == TRUE

\* decryptAudio, line 457: the declared chunk lies inside the buffer.
ChunkFits(offset, chunkLength, length) == offset + chunkLength <= length

FormatError == "Invalid encrypted data format"

LengthError == "Invalid chunk length"

\* decryptAudio, lines 448-464: the parse loop from the given offset on.
\* at is the offset the loop ended or threw at, extents the bounds the
\* chunks were sliced with, top the end of the highest range of bytes it
\* asked the buffer for.
RECURSIVE ParseChunks(_, _, _, _, _)
ParseChunks(b, offset, chunks, extents, top) ==
    IF ~(offset < Len(b))
    THEN [err |-> "none", chunks |-> chunks, extents |-> extents,
          at |-> offset, top |-> top]
    ELSE IF offset + LengthBytes > Len(b)
    THEN [err |-> FormatError, chunks |-> chunks, extents |-> extents,
          at |-> offset, top |-> top]
    ELSE LET chunkLength == GetUint32(b, offset)
             from == offset + LengthBytes
         IN  IF ~ChunkFits(from, chunkLength, Len(b))
             THEN [err |-> LengthError, chunks |-> chunks,
                   extents |-> extents, at |-> offset, top |-> from]
             ELSE ParseChunks(b, from + chunkLength,
                              Append(chunks, Slice(b, from, from + chunkLength)),
                              Append(extents, <<from, from + chunkLength>>),
                              from + chunkLength)

RECURSIVE Concat(_)
Concat(parts) == IF parts = <<>> THEN <<>> ELSE Head(parts) \o Concat(Tail(parts))

\* The sender generates a session key and wraps it for the key pair p:
\* encryptSessionKey(sessionKey, recipientPublicKeyJwk).
EncryptSessionKey(raw, p) ==
    /\ wrapped.kind = "none"
    /\ LET key == GenerateSessionKey(useNative["A"], raw) IN
       /\ wrapped' = [kind |-> "key", val |-> key, pub |-> p]
       /\ stream' = EncryptAudio(KeyData(useNative["A"], key), p)
    /\ UNCHANGED <<useNative, rxKeyPair, cut, unwrapSt, wrapRest>>

\* encryptAudio(audioData, recipientPublicKeyJwk) on a buffer of n bytes.
EncryptAudioCall(n, p) ==
    /\ wrapped.kind = "none"
    /\ wrapped' = [kind |-> "data",
                   val |-> [rep |-> "ArrayBuffer", bytes |-> DataOf(n)],
                   pub |-> p]
    /\ stream' = EncryptAudio(DataOf(n), p)
    /\ UNCHANGED <<useNative, rxKeyPair, cut, unwrapSt, wrapRest>>

\* The stream arrives cut short: only its first n bytes.
Truncate(n) ==
    /\ wrapped.kind # "none"
    /\ cut = "no"
    /\ unwrapSt.st = "idle"
    /\ n < Len(stream)
    /\ stream' = SubSeq(stream, 1, n)
    /\ cut' = "truncated"
    /\ UNCHANGED <<useNative, rxKeyPair, wrapped, unwrapSt, wrapRest>>

\* The stream arrives with byte i of the length prefix of its frame j set
\* to v.
AlterLength(j, i, v) ==
    /\ wrapped.kind # "none"
    /\ cut = "no"
    /\ unwrapSt.st = "idle"
    /\ (j - 1) * (LengthBytes + RsaBlock) + i \in DOMAIN stream
    /\ stream[(j - 1) * (LengthBytes + RsaBlock) + i] # v
    /\ stream' = [stream EXCEPT ![(j - 1) * (LengthBytes + RsaBlock) + i] = v]
    /\ cut' = "altered"
    /\ UNCHANGED <<useNative, rxKeyPair, wrapped, unwrapSt, wrapRest>>

\* decryptSessionKey or decryptAudio at the receiver, up to the first
\* decryption: the parse loop.  It throws, or the chunks go to RSA-OAEP.
DecryptAudioParse ==
    /\ wrapped.kind # "none"
    /\ unwrapSt.st = "idle"
    /\ LET r == ParseChunks(stream, 0, <<>>, <<>>, 0) IN
       unwrapSt' = [st |-> IF r.err = "none" THEN "decrypting" ELSE "rejected",
                    err |-> r.err, chunks |-> r.chunks,
                    extents |-> r.extents, at |-> r.at, top |-> r.top,
                    decrypts |-> 0, out |-> NoValue]
    /\ UNCHANGED <<useNative, rxKeyPair, wrapped, stream, cut, wrapRest>>

\* The rest of decryptAudio and, for a key, of decryptSessionKey: every
\* chunk is decrypted, the results are concatenated, and importSessionKey
\* makes the key of them.
DecryptAudioFinish ==
    /\ unwrapSt.st = "decrypting"
    /\ LET chunks == unwrapSt.chunks
           opens == \A i \in DOMAIN chunks : RsaOpens(rxKeyPair, chunks[i])
           raw == Concat([i \in DOMAIN chunks |-> RsaDecrypt(rxKeyPair, chunks[i])])
           rawKeyBuffer == [rep |-> "ArrayBuffer", bytes |-> raw]
       IN  IF ~opens
           THEN unwrapSt' = [unwrapSt EXCEPT !.st = "rejected",
                                             !.err = "decrypt",
                                             !.decrypts = Len(chunks)]
           ELSE IF wrapped.kind = "data"
           THEN unwrapSt' = [unwrapSt EXCEPT !.st = "done",
                                             !.decrypts = Len(chunks),
                                             !.out = rawKeyBuffer]
           ELSE IF useNative["B"] /\ ~ImportableLength(Len(raw))
           THEN unwrapSt' = [unwrapSt EXCEPT !.st = "rejected",
                                             !.err = "import",
                                             !.decrypts = Len(chunks)]
           ELSE unwrapSt' = [unwrapSt EXCEPT
                                !.st = "done",
                                !.decrypts = Len(chunks),
                                !.out = ImportSessionKey(useNative["B"], rawKeyBuffer)]
    /\ UNCHANGED <<useNative, rxKeyPair, wrapped, stream, cut, wrapRest>>

\* A sender and a receiver, each with Web Crypto or with forge, and the
\* receiver's key pair.
InitWrap ==
    /\ PairIdle
    /\ AesIdle
    /\ useNative \in [Ends -> BOOLEAN]
    /\ rxKeyPair \in KeyPairs
    /\ wrapped = NoWrap
    /\ stream = <<>>
    /\ cut = "no"
    /\ unwrapSt = UnwrapIdle
    /\ JoinIdle
    /\ InitializeIdle
    /\ LaterIdle

NextWrap ==
    \/ \E raw \in RawKeys, p \in KeyPairs : EncryptSessionKey(raw, p)
    \/ \E n \in DataLengths, p \in KeyPairs : EncryptAudioCall(n, p)
    \/ \E n \in 0..(2 * (LengthBytes + RsaBlock)) : Truncate(n)
    \/ \E j \in 1..2, i \in 1..LengthBytes, v \in AlteredBytes : AlterLength(j, i, v)
    \/ DecryptAudioParse
    \/ DecryptAudioFinish

SpecWrap == InitWrap /\ [][NextWrap]_vars

(***************************************************************************)
(* One VoiceEngine joining and leaving rooms: joinRoom, leaveRoom,         *)
(* startAudioCapture, stopAudioCapture and the speaking detection loop.    *)
(* Calls of joinRoom may overlap: the interface starts one per click and   *)
(* each runs from await to await.                                          *)
(***************************************************************************)

SPEAKING_HISTORY_SIZE == 5

\* SPEAKING_THRESHOLD, 0.01, in hundredths.
SpeakingThresholdPercent == 1

\* analyser.frequencyBinCount for fftSize = 256.
FrequencyBinCount == 128

\* joinRoom calls made.
MaxCalls == 2

\* Samples the detection loop processes.
MaxTicks == 6

Rooms == {"r1", "r2"}

\* getByteFrequencyData: the sum of the bins, each 0..255.
BinSums == {0, 326, 327, FrequencyBinCount * 255}

\* normalizedVolume > SPEAKING_THRESHOLD, with average = sum / bins and
\* normalizedVolume = average / 255.
AboveThreshold(sum) ==
    100 * sum > SpeakingThresholdPercent * FrequencyBinCount * 255

\* speakingHistory.push(...), then shift() if longer than the window.
PushSample(history, above) ==
    IF Len(history) + 1 > SPEAKING_HISTORY_SIZE
    THEN Tail(Append(history, above))
    ELSE Append(history, above)

SpeakingCount(history) == Cardinality({i \in DOMAIN history : history[i]})

\* A detector that reports speech on the first sample above the threshold.
NewSpeakingStateEager(history) == SpeakingCount(history) >= 1

\* speakingCount >= SPEAKING_HISTORY_SIZE / 2.
NewSpeakingState(history) == 2 * SpeakingCount(history) >= SPEAKING_HISTORY_SIZE

\* detectSpeaking past its guard, lines 512-531: one sample.
DetectSpeaking(sum) ==
    /\ lastSample' = AboveThreshold(sum)
    /\ speakingHistory' = PushSample(speakingHistory, AboveThreshold(sum))
    /\ isSpeaking' = NewSpeakingState(speakingHistory')
    /\ spoke' = IF isSpeaking' # isSpeaking THEN Append(spoke, isSpeaking')
                ELSE spoke
    /\ ticks' = ticks + 1

speakVars == <<speakingHistory, isSpeaking, spoke, lastSample, ticks>>

\* stopAudioCapture, lines 639-660.
StopAudioCapture ==
    /\ analyser' = FALSE
    /\ speakingHistory' = <<>>
    /\ isSpeaking' = FALSE
    /\ UNCHANGED <<spoke, lastSample, ticks>>

\* leaveRoom past its guard, lines 411-430.
LeaveRoomBody ==
    /\ StopAudioCapture
    /\ hasLinks' = FALSE
    /\ isConnected' = FALSE

LeaveMsg(r) == [type |-> "leave-room", room |-> r]

JoinMsg(r) == [type |-> "join-room", room |-> r]

JoinCallRec(r, st) == [room |-> r, st |-> st, sentJoin |-> FALSE]

\* joinRoom(r), lines 341-374, up to its first await that waits: a room
\* already joined is left first; without a socket the call fails at once;
\* with a socket still connecting it waits for the connect event; else it
\* goes on to startAudioCapture.
JoinCall(r) ==
    /\ Len(joinCalls) < MaxCalls
    /\ IF curRoom # "none"
       THEN /\ LeaveRoomBody
            /\ emits' = Append(emits, LeaveMsg(curRoom))
       ELSE UNCHANGED <<analyser, speakVars, hasLinks, isConnected, emits>>
    /\ IF sockSt = "none"
       THEN /\ joinCalls' = Append(joinCalls, JoinCallRec(r, "failed"))
            /\ curRoom' = "none"
       ELSE /\ joinCalls' = Append(joinCalls,
                   JoinCallRec(r, IF sockSt = "connected" THEN "media"
                                  ELSE "waitSocket"))
            /\ curRoom' = r
    /\ UNCHANGED <<sockSt, rafLoops, joinRest>>

\* The socket's connect event: every joinRoom call waiting for it goes on.
SocketConnected ==
    /\ sockSt = "connecting"
    /\ sockSt' = "connected"
    /\ joinCalls' = [c \in DOMAIN joinCalls |->
                        IF joinCalls[c].st = "waitSocket"
                        THEN [joinCalls[c] EXCEPT !.st = "media"]
                        ELSE joinCalls[c]]
    /\ UNCHANGED <<curRoom, isConnected, emits, analyser, rafLoops, speakVars,
                   hasLinks, joinRest>>

\* The catch of joinRoom, lines 393-401.
JoinFailed(c) ==
    /\ joinCalls' = [joinCalls EXCEPT ![c].st = "failed"]
    /\ curRoom' = "none"

\* The 5000 ms timer of a call waiting for the socket fires.
SocketTimeout(c) ==
    /\ c \in DOMAIN joinCalls
    /\ joinCalls[c].st = "waitSocket"
    /\ JoinFailed(c)
    /\ UNCHANGED <<isConnected, sockSt, emits, analyser, rafLoops, speakVars,
                   hasLinks, joinRest>>

\* startAudioCapture, lines 471-491: getUserMedia settles.  On success the
\* analyser is created and setupAudioProcessor awaited; on failure the
\* error reaches the catch of joinRoom.
MediaDone(c, ok) ==
    /\ c \in DOMAIN joinCalls
    /\ joinCalls[c].st = "media"
    /\ IF ok
       THEN /\ joinCalls' = [joinCalls EXCEPT ![c].st = "worklet"]
            /\ analyser' = TRUE
            /\ UNCHANGED curRoom
       ELSE /\ JoinFailed(c)
            /\ UNCHANGED analyser
    /\ UNCHANGED <<isConnected, sockSt, emits, rafLoops, speakVars, hasLinks,
                   joinRest>>

\* setupAudioProcessor settles.  On success startSpeakingDetection runs:
\* it throws without an analyser; detectSpeaking returns at once unless
\* isConnected, else it takes a sample and requests the next frame.  Then
\* joinRoom emits join-room and sets isConnected (lines 380-388).
WorkletDone(c, ok, sum) ==
    /\ c \in DOMAIN joinCalls
    /\ joinCalls[c].st = "worklet"
    /\ IF ok /\ analyser
       THEN /\ joinCalls' = [joinCalls EXCEPT ![c].st = "done",
                                              ![c].sentJoin = TRUE]
            /\ emits' = Append(emits, JoinMsg(joinCalls[c].room))
            /\ isConnected' = TRUE
            /\ IF isConnected /\ ticks < MaxTicks
               THEN /\ DetectSpeaking(sum)
                    /\ rafLoops' = rafLoops + 1
               ELSE UNCHANGED <<speakVars, rafLoops>>
            /\ UNCHANGED curRoom
       ELSE /\ JoinFailed(c)
            /\ UNCHANGED <<emits, isConnected, speakVars, rafLoops>>
    /\ UNCHANGED <<sockSt, analyser, hasLinks, joinRest>>

\* leaveRoom() called by the interface.
LeaveCall ==
    /\ curRoom # "none"
    /\ LeaveRoomBody
    /\ emits' = Append(emits, LeaveMsg(curRoom))
    /\ curRoom' = "none"
    /\ UNCHANGED <<sockSt, joinCalls, rafLoops, joinRest>>

\* An animation frame of a running detection loop: detectSpeaking.  It
\* ends the loop without an analyser or a connection, else takes a sample.
Tick(sum) ==
    /\ rafLoops > 0
    /\ IF ~analyser \/ ~isConnected
       THEN /\ rafLoops' = rafLoops - 1
            /\ UNCHANGED speakVars
       ELSE /\ ticks < MaxTicks
            /\ DetectSpeaking(sum)
            /\ UNCHANGED rafLoops
    /\ UNCHANGED <<curRoom, isConnected, sockSt, joinCalls, emits, analyser,
                   hasLinks, joinRest>>

\* A relay event of the joined room makes the engine create a link.
LinkCreated ==
    /\ isConnected
    /\ ~hasLinks
    /\ hasLinks' = TRUE
    /\ UNCHANGED <<curRoom, isConnected, sockSt, joinCalls, emits, analyser,
                   rafLoops, speakVars, joinRest>>

\* An engine in no room, with no socket, a socket connecting or a socket
\* connected.
InitJoin ==
    /\ PairIdle
    /\ AesIdle
    /\ WrapIdle
    /\ sockSt \in {"none", "connecting", "connected"}
    /\ JoinQuiet
    /\ InitializeIdle
    /\ LaterIdle

NextJoin ==
    \/ \E r \in Rooms : JoinCall(r)
    \/ SocketConnected
    \/ \E c \in 1..MaxCalls : SocketTimeout(c)
    \/ \E c \in 1..MaxCalls, ok \in BOOLEAN : MediaDone(c, ok)
    \/ \E c \in 1..MaxCalls, ok \in BOOLEAN, sum \in BinSums : WorkletDone(c, ok, sum)
    \/ LeaveCall
    \/ \E sum \in BinSums : Tick(sum)
    \/ LinkCreated

SpecJoin == InitJoin /\ [][NextJoin]_vars

(***************************************************************************)
(* VoiceEngine.initialize and the sockets it creates.  initialize has no   *)
(* await: every call runs to its end before any socket event is handled.   *)
(***************************************************************************)

\* Calls of initialize.
MaxInitialize == 4

DisconnectReasons == {"transport close", "io server disconnect"}

\* initialize(userId, username, token), lines 113-172: it returns at once
\* when isInitialized; else it creates a socket, registers the relay
\* listeners on it with setupSocketListeners and connects it.
Initialize ==
    /\ initCalls < MaxInitialize
    /\ initCalls' = initCalls + 1
    /\ IF isInitialized
       THEN UNCHANGED <<sockets, listenerSets>>
       ELSE /\ sockets' = Append(sockets, "connecting")
            /\ listenerSets' = listenerSets + 1
    /\ UNCHANGED <<isInitialized, initRest>>

\* The connect event of the socket i, lines 146-152.
OnConnect(i) ==
    /\ i \in DOMAIN sockets
    /\ sockets[i] = "connecting"
    /\ sockets' = [sockets EXCEPT ![i] = "connected"]
    /\ isInitialized' = TRUE
    /\ UNCHANGED <<listenerSets, initCalls, initRest>>

\* The disconnect event of the socket i, lines 155-160: after a transport
\* close the socket reconnects by itself, after a disconnect by the server
\* it stays closed.
OnDisconnect(i, reason) ==
    /\ i \in DOMAIN sockets
    /\ sockets[i] = "connected"
    /\ sockets' = [sockets EXCEPT ![i] = IF reason = "transport close"
                                         THEN "connecting" ELSE "closed"]
    /\ isInitialized' = FALSE
    /\ UNCHANGED <<listenerSets, initCalls, initRest>>

InitInitialize == PairIdle /\ UnitIdle

NextInitialize ==
    \/ Initialize
    \/ \E i \in 1..MaxInitialize : OnConnect(i)
    \/ \E i \in 1..MaxInitialize, reason \in DisconnectReasons : OnDisconnect(i, reason)

SpecInitialize == InitInitialize /\ [][NextInitialize]_vars


(***************************************************************************)
(* Remote ICE candidates: the ice-candidate handler of the engine and      *)
(* handleIceCandidate of the negotiation manager, for one peer.  The peer  *)
(* connection runs setRemoteDescription and addIceCandidate in the order   *)
(* they were called.                                                       *)
(***************************************************************************)

\* Candidates the peer sends.
MaxCandidates == 3

Candidates == 1..MaxCandidates

SrdOp == [op |-> "srd", cand |-> 0]

AddOp(c) == [op |-> "add", cand |-> c]

\* createPeerConnection for a peer without a manager, once the operations
\* of an earlier link have settled: a new peer connection, without a remote
\* description, and a new manager.
IceCreateLink ==
    /\ ~iceManager
    /\ iceChain = <<>>
    /\ iceManager' = TRUE
    /\ iceRemote' = FALSE
    /\ iceChain' = <<>>
    /\ UNCHANGED <<pendingCandidates, iceArrived, iceApplied, iceLost, iceRest>>

\* An offer or an answer of the peer is taken up: handleOffer or
\* handleAnswer calls setRemoteDescription.
IceDescription ==
    /\ iceManager
    /\ ~iceRemote
    /\ \A i \in DOMAIN iceChain : iceChain[i].op # "srd"
    /\ iceChain' = Append(iceChain, SrdOp)
    /\ UNCHANGED <<iceManager, iceRemote, pendingCandidates, iceArrived,
                   iceApplied, iceLost, iceRest>>

\* setRemoteDescription settles.
IceDescriptionSet ==
    /\ iceChain # <<>>
    /\ Head(iceChain).op = "srd"
    /\ iceChain' = Tail(iceChain)
    /\ iceRemote' = TRUE
    /\ UNCHANGED <<iceManager, pendingCandidates, iceArrived, iceApplied,
                   iceLost, iceRest>>

\* socket.on('ice-candidate'): with a manager, handleIceCandidate calls
\* addIceCandidate; without one the handler returns.
IceCandidate(c) ==
    /\ c \notin iceArrived
    /\ iceArrived' = iceArrived \cup {c}
    /\ IF iceManager
       THEN /\ iceChain' = Append(iceChain, AddOp(c))
            /\ UNCHANGED <<pendingCandidates, iceLost>>
       ELSE /\ iceLost' = iceLost \cup {c}
            /\ UNCHANGED <<iceChain, pendingCandidates>>
    /\ UNCHANGED <<iceManager, iceRemote, iceApplied, iceRest>>

\* addIceCandidate settles: without a remote description it rejects and
\* handleIceCandidate's catch logs the error.
IceCandidateAdded ==
    /\ iceChain # <<>>
    /\ Head(iceChain).op = "add"
    /\ iceChain' = Tail(iceChain)
    /\ IF iceRemote
       THEN /\ iceApplied' = iceApplied \cup {Head(iceChain).cand}
            /\ UNCHANGED iceLost
       ELSE /\ iceLost' = iceLost \cup {Head(iceChain).cand}
            /\ UNCHANGED iceApplied
    /\ UNCHANGED <<iceManager, iceRemote, pendingCandidates, iceArrived, iceRest>>

\* onconnectionstatechange with failed or disconnected, or leaveRoom: the
\* manager of the peer is deleted.
IceManagerDeleted ==
    /\ iceManager
    /\ iceManager' = FALSE
    /\ UNCHANGED <<iceRemote, iceChain, pendingCandidates, iceArrived,
                   iceApplied, iceLost, iceRest>>

InitIce == PairIdle /\ UnitIdle

NextIce ==
    \/ IceCreateLink
    \/ IceDescription
    \/ IceDescriptionSet
    \/ \E c \in Candidates : IceCandidate(c)
    \/ IceCandidateAdded
    \/ IceManagerDeleted

SpecIce == InitIce /\ [][NextIce]_vars

(***************************************************************************)
(* Personal meetings: Dashboard.handleStartPersonalMeeting posts           *)
(* {name, personal: true} to /api/rooms; the route looks the user's        *)
(* personal room up and, finding none, has RoomManager.createRoom make one.*)
(***************************************************************************)

Members == {"u1", "u2"}

\* req.user.personalJoinCode, as generatePMI made it: pmi-xxx-yyy.
PersonalJoinCode(u) == IF u = "u1" THEN "pmi-aaa-aaa" ELSE "pmi-bbb-bbb"

\* What generateUniqueJoinCode can draw: three segments of three letters,
\* the segment "pmi" among them.
JoinCodes == {"abc-def-ghi", "jkl-mno-pqr", "pmi-aaa-aaa", "pmi-bbb-bbb"}

MaxPersonal == 3

\* Room.findOne({joinCode: code}): the room's place in the collection, or 0.
FindOne(code) ==
    IF \E i \in 1..Len(roomsDb) : roomsDb[i].joinCode = code
    THEN CHOOSE i \in 1..Len(roomsDb) : roomsDb[i].joinCode = code
    ELSE 0

PersonalAsked ==
    Len(personalResp) + Cardinality({u \in Members : personalReq[u] # "none"})

\* handleStartPersonalMeeting, up to the request: nothing while creating.
HandleStartPersonalMeeting(u) ==
    /\ personalReq[u] = "none"
    /\ PersonalAsked < MaxPersonal
    /\ personalReq' = [personalReq EXCEPT ![u] = "findOne"]
    /\ UNCHANGED <<roomsDb, personalResp, pmiRest>>

\* router.post('/') with personal set, once Room.findOne has answered: the
\* room found is returned, or the route goes on to createRoom.
PostFound(u) ==
    /\ personalReq[u] = "findOne"
    /\ LET existingRoom == FindOne(PersonalJoinCode(u))
       IN  IF existingRoom # 0
           THEN /\ personalResp' = Append(personalResp,
                                          [user |-> u, room |-> existingRoom])
                /\ personalReq' = [personalReq EXCEPT ![u] = "none"]
           ELSE /\ personalReq' = [personalReq EXCEPT ![u] = "createRoom"]
                /\ UNCHANGED personalResp
    /\ UNCHANGED <<roomsDb, pmiRest>>

\* RoomManager.createRoom(name, createdBy, createdByUsername): the fourth
\* argument of the call has no parameter to land in; the join code is the
\* one generateUniqueJoinCode draws, any code no room has yet.
CreateRoom(u) ==
    /\ personalReq[u] = "createRoom"
    /\ \E joinCode \in JoinCodes :
          /\ FindOne(joinCode) = 0
          /\ roomsDb' = Append(roomsDb, [joinCode |-> joinCode, createdBy |-> u])
          /\ personalResp' = Append(personalResp,
                                    [user |-> u, room |-> Len(roomsDb) + 1])
    /\ personalReq' = [personalReq EXCEPT ![u] = "none"]
    /\ UNCHANGED pmiRest

InitPersonal == PairIdle /\ UnitIdle

NextPersonal ==
    \E u \in Members :
        \/ HandleStartPersonalMeeting(u)
        \/ PostFound(u)
        \/ CreateRoom(u)

SpecPersonal == InitPersonal /\ [][NextPersonal]_vars

(***************************************************************************)
(* The key exchange over a data channel that loses messages: the channel   *)
(* is created with ordered: false and maxRetransmits: 0, and nothing ends  *)
(* the link.                                                               *)
(***************************************************************************)

\* A message e sent is lost by the channel: it is never delivered.
Dropped(e, m) ==
    /\ transportUp
    /\ m \in dc[e]
    /\ m.type \in {"key", "key-ack"}
    /\ dc' = [dc EXCEPT ![e] = @ \ {m}]
    /\ UNCHANGED <<relayVars, currentRoom, linkVars, keyVars, handlerVars,
                   transportUp, nextKey, histVars, sigVars, meshVars, unitVars>>

\* What the clients and the channel do by themselves.
LossyProgress ==
    \/ \E e \in Ends : RoomParticipants(e)
    \/ \E e \in Ends : UserJoined(e)
    \/ Negotiated
    \/ \E e \in Ends : OnDataChannel(e)
    \/ \E e \in Ends : OnOpen(e)
    \/ \E e \in Ends : OpenGenerated(e)
    \/ \E e \in Ends : OpenWrapped(e)
    \/ \E e \in Ends : \E m \in dc[Peer(e)] : RecvKey(e, m)
    \/ \E e \in Ends : KeyUnwrapped(e)
    \/ \E e \in Ends : \E m \in dc[Peer(e)] : RecvKeyAck(e, m)

NextLossy ==
    \/ \E e \in Ends : JoinRoom(e)
    \/ LossyProgress
    \/ \E e \in Ends : \E m \in dc[e] : Dropped(e, m)

\* Every handler that can run does run and a message that stays in flight
\* is delivered; a loss is never forced.
SpecLossy ==
    /\ Init
    /\ [][NextLossy]_vars
    /\ \A e \in Ends :
          /\ WF_vars(RoomParticipants(e))
          /\ WF_vars(UserJoined(e))
          /\ WF_vars(OnDataChannel(e))
          /\ WF_vars(OnOpen(e))
          /\ WF_vars(OpenGenerated(e))
          /\ WF_vars(OpenWrapped(e))
          /\ WF_vars(\E m \in dc[Peer(e)] : RecvKey(e, m))
          /\ WF_vars(KeyUnwrapped(e))
          /\ WF_vars(\E m \in dc[Peer(e)] : RecvKeyAck(e, m))
    /\ WF_vars(Negotiated)

(***************************************************************************)
(* The signaling server: the authenticate, join-room, leave-room and       *)
(* disconnect handlers of initializeSignaling over one room, and the       *)
(* RoomManager methods they call.  Rate limiting stays below its limit.    *)
(***************************************************************************)

Sockets == {"s1", "s2", "s3"}

UserIds == {"u1", "u2"}

\* The userId a socket sends: s1 and s2 are two connections of one user.
UserOf(s) == IF s = "s3" THEN "u2" ELSE "u1"

MaxRelayJoins == 2

Msg(to, about, type) == [to |-> to, about |-> about, type |-> type]

\* socket.to(roomId) seen from s: the sockets of the room other than s.
RoomOthers(s) == ioRoom \ {s}

\* getParticipants(roomId).filter(p => p.socketId !== socket.id) over a
\* participants map: nothing while the room is not loaded.
ExistingParticipants(s, active, parts) ==
    IF active
    THEN {parts[u] : u \in {v \in UserIds : parts[v] \notin {"none", s}}}
    ELSE {}

\* removeParticipant(roomId, participantId): null while the room is not
\* loaded.
RemoveParticipant(u) ==
    IF activeRooms THEN [roomParticipants EXCEPT ![u] = "none"]
    ELSE roomParticipants

\* removeParticipantBySocket(socketId): the entries that store the socket.
RemoveParticipantBySocket(s) ==
    [u \in UserIds |-> IF activeRooms /\ roomParticipants[u] = s THEN "none"
                       ELSE roomParticipants[u]]

\* socket.on('authenticate') up to its await.
Authenticate(s) ==
    /\ s \in liveSockets
    /\ s \notin authPending
    /\ s \notin connectedUsers
    /\ authPending' = authPending \cup {s}
    /\ UNCHANGED <<liveSockets, connectedUsers, userRoom, activeRooms,
                   roomParticipants, ioRoom, addPending, told, owed, departed,
                   relayJoins, srvRest>>

\* authenticate after User.findById: the entry is stored with currentRoom
\* null, whether or not the socket is still connected.
Authenticated(s) ==
    /\ s \in authPending
    /\ authPending' = authPending \ {s}
    /\ connectedUsers' = connectedUsers \cup {s}
    /\ userRoom' = userRoom \ {s}
    /\ UNCHANGED <<liveSockets, activeRooms, roomParticipants, ioRoom,
                   addPending, told, owed, departed, relayJoins, srvRest>>

\* A request that loads the room: getRoom or createRoom calls
\* activateRoomInMemory.
GetRoom ==
    /\ ~activeRooms
    /\ activeRooms' = TRUE
    /\ UNCHANGED <<liveSockets, authPending, connectedUsers, userRoom,
                   roomParticipants, ioRoom, addPending, told, owed, departed,
                   relayJoins, srvRest>>

\* socket.on('join-room').  A socket whose entry has a current room leaves
\* it first.  addParticipant is called and not awaited: with the room loaded
\* it stores the participant before it returns, otherwise it awaits
\* Room.findById and the handler goes on.  room-participants goes to the
\* joiner and user-joined to the others of the socket.io room.
RelayJoinRoom(s) ==
    /\ s \in liveSockets
    /\ relayJoins < MaxRelayJoins
    /\ relayJoins' = relayJoins + 1
    /\ LET leaves == s \in userRoom
           left == IF leaves THEN RemoveParticipant(UserOf(s))
                   ELSE roomParticipants
           parts == IF activeRooms THEN [left EXCEPT ![UserOf(s)] = s]
                    ELSE left
           others == RoomOthers(s)
       IN  /\ roomParticipants' = parts
           /\ addPending' = IF activeRooms THEN addPending
                            ELSE addPending \cup {s}
           /\ ioRoom' = ioRoom \cup {s}
           /\ userRoom' = IF s \in connectedUsers THEN userRoom \cup {s}
                          ELSE userRoom
           /\ told' = {m \in told : m.to # s /\ m.about # s}
                        \cup {Msg(s, p, "room-participants") :
                                 p \in ExistingParticipants(s, activeRooms, parts)}
                        \cup {Msg(x, s, "user-joined") : x \in others}
           /\ owed' = {o \in owed : o.to # s /\ o.about # s}
           /\ departed' = departed \ {s}
    /\ UNCHANGED <<liveSockets, authPending, connectedUsers, activeRooms, srvRest>>

\* addParticipant after Room.findById: the room is loaded and the
\* participant is stored under its user id.
AddParticipantDone(s) ==
    /\ s \in addPending
    /\ addPending' = addPending \ {s}
    /\ activeRooms' = TRUE
    /\ roomParticipants' = [roomParticipants EXCEPT ![UserOf(s)] = s]
    /\ UNCHANGED <<liveSockets, authPending, connectedUsers, userRoom, ioRoom,
                   told, owed, departed, relayJoins, srvRest>>

\* socket.on('leave-room'): handleLeaveRoom.
RelayLeaveRoom(s) ==
    /\ s \in liveSockets
    /\ s \in ioRoom
    /\ ioRoom' = ioRoom \ {s}
    /\ roomParticipants' = RemoveParticipant(UserOf(s))
    /\ userRoom' = userRoom \ {s}
    /\ told' = told \cup {Msg(x, s, "user-left") : x \in RoomOthers(s)}
    /\ owed' = owed \cup {[to |-> x, about |-> s] : x \in RoomOthers(s)}
    /\ departed' = departed \cup {s}
    /\ UNCHANGED <<liveSockets, authPending, connectedUsers, activeRooms,
                   addPending, relayJoins, srvRest>>

\* socket.on('disconnect'): socket.io has taken the socket out of its rooms;
\* only a socket with an entry in connectedUsers is removed from the
\* participants, and user-left is sent for the entries removed.
Disconnect(s) ==
    /\ s \in liveSockets
    /\ liveSockets' = liveSockets \ {s}
    /\ ioRoom' = ioRoom \ {s}
    /\ LET removed == s \in connectedUsers /\ activeRooms
                         /\ \E u \in UserIds : roomParticipants[u] = s
       IN  /\ roomParticipants' = IF s \in connectedUsers
                                  THEN RemoveParticipantBySocket(s)
                                  ELSE roomParticipants
           /\ told' = IF removed
                      THEN told \cup {Msg(x, s, "user-left") : x \in RoomOthers(s)}
                      ELSE told
    /\ connectedUsers' = connectedUsers \ {s}
    /\ userRoom' = userRoom \ {s}
    /\ owed' = IF s \in ioRoom
               THEN owed \cup {[to |-> x, about |-> s] : x \in RoomOthers(s)}
               ELSE owed
    /\ departed' = IF s \in ioRoom THEN departed \cup {s} ELSE departed
    /\ UNCHANGED <<authPending, activeRooms, addPending, relayJoins, srvRest>>

InitRelay == PairIdle /\ UnitIdle

NextRelay ==
    \/ \E s \in Sockets : Authenticate(s)
    \/ \E s \in Sockets : Authenticated(s)
    \/ GetRoom
    \/ \E s \in Sockets : RelayJoinRoom(s)
    \/ \E s \in Sockets : AddParticipantDone(s)
    \/ \E s \in Sockets : RelayLeaveRoom(s)
    \/ \E s \in Sockets : Disconnect(s)

SpecRelay == InitRelay /\ [][NextRelay]_vars

(***************************************************************************)
(* Playback gain: playAudio creates the gain node of a peer on its first   *)
(* frame, setDeafened writes the gain of the nodes there are, and          *)
(* closePeerConnection deletes the node.  The audio context is running.    *)
(***************************************************************************)

\* playAudio(audioData, peerId): a peer without a gain node gets one with
\* gain.value 2.0; the frame is played through the peer's node.
PlayAudio(p) ==
    /\ IF p \in audioNodes
       THEN UNCHANGED <<audioNodes, gainValue>>
       ELSE /\ audioNodes' = audioNodes \cup {p}
            /\ gainValue' = [gainValue EXCEPT ![p] = 2]
    /\ UNCHANGED <<deafened, nodesBefore, gainBefore, deafRest>>

\* setDeafened(d): every node in audioNodes gets gain.value 0 or 1.
SetDeafened(d) ==
    /\ gainValue' = [p \in Peers |->
                        IF p \in audioNodes THEN (IF d THEN 0 ELSE 1)
                        ELSE gainValue[p]]
    /\ deafened' = d
    /\ nodesBefore' = IF d /\ ~deafened THEN audioNodes ELSE nodesBefore
    /\ gainBefore' = IF d /\ ~deafened THEN gainValue ELSE gainBefore
    /\ UNCHANGED <<audioNodes, deafRest>>

\* closePeerConnection(peerId): audioNodes.delete(peerId).
AudioNodeDeleted(p) ==
    /\ p \in audioNodes
    /\ audioNodes' = audioNodes \ {p}
    /\ gainValue' = [gainValue EXCEPT ![p] = 0]
    /\ UNCHANGED <<deafened, nodesBefore, gainBefore, deafRest>>

InitDeafen == PairIdle /\ UnitIdle

NextDeafen ==
    \/ \E p \in Peers : PlayAudio(p)
    \/ \E d \in BOOLEAN : SetDeafened(d)
    \/ \E p \in Peers : AudioNodeDeleted(p)

SpecDeafen == InitDeafen /\ [][NextDeafen]_vars

(***************************************************************************)
(* The capture worklet: AudioProcessor.process copies each input block     *)
(* into a buffer of bufferSize samples and posts the buffered samples when *)
(* the next block would fill it.  The k-th input sample has the value k.   *)
(***************************************************************************)

bufferSize == 2048

\* The lengths of channel0 tried: the render quantum, sizes that fill the
\* buffer exactly in two blocks, and the whole buffer.
BlockLengths == {128, 1024, 1920, 2048}

MaxBlocks == 4

\* A flush that waits until the buffer is full.
BufferFullAlready(written, length) == written >= bufferSize

\* The flush condition of process.
BufferFull(written, length) == written + length >= bufferSize

\* new AudioProcessor(): a buffer of bufferSize samples, nothing written.
Construct ==
    /\ buffer = <<>>
    /\ buffer' = [i \in 1..bufferSize |-> 0]
    /\ bytesWritten' = 0
    /\ UNCHANGED <<posted, fedSamples, blocksFed, processThrew, workletRest>>

\* process(inputs) with a channel0 of `length` samples: a flush posts
\* buffer.slice(0, bytesWritten) and restarts at 0; buffer.set throws a
\* RangeError when the block does not fit at the offset.
Process(length) ==
    /\ buffer # <<>>
    /\ ~processThrew
    /\ blocksFed < MaxBlocks
    /\ blocksFed' = blocksFed + 1
    /\ fedSamples' = fedSamples + length
    /\ LET flush == BufferFull(bytesWritten, length)
           offset == IF flush THEN 0 ELSE bytesWritten
       IN  /\ posted' = IF flush
                        THEN Append(posted, SubSeq(buffer, 1, bytesWritten))
                        ELSE posted
           /\ IF offset + length > bufferSize
              THEN /\ processThrew' = TRUE
                   /\ bytesWritten' = offset
                   /\ UNCHANGED buffer
              ELSE /\ buffer' = [i \in 1..bufferSize |->
                                    IF i > offset /\ i <= offset + length
                                    THEN fedSamples + (i - offset)
                                    ELSE buffer[i]]
                   /\ bytesWritten' = offset + length
                   /\ UNCHANGED processThrew
    /\ UNCHANGED workletRest

InitWorklet == PairIdle /\ UnitIdle

NextWorklet ==
    \/ Construct
    \/ \E length \in BlockLengths : Process(length)

SpecWorklet == InitWorklet /\ [][NextWorklet]_vars

(***************************************************************************)
(* SignalingManager and the RTCPeerConnection it drives.                   *)
(*                                                                         *)
(* The peer connection runs setLocalDescription and setRemoteDescription   *)
(* calls one at a time, in the order they were made (its operations        *)
(* chain).  Every await of SignalingManager is such a call, so a handler   *)
(* in flight is an entry of chain[e]; when the head completes, the code    *)
(* after that await runs up to the next await.                             *)
(***************************************************************************)

LocalDescription(e) == IF pendLocal[e] # "none" THEN pendLocal[e] ELSE curLocal[e]

Op(who, step, desc) == [who |-> who, step |-> step, desc |-> desc]

OfferEvent(desc) == [kind |-> "offer", desc |-> desc]

AnswerEvent(desc) == [kind |-> "answer", desc |-> desc]

Thrown(e) ==
    [ok |-> FALSE, st |-> signalingState[e], pend |-> pendLocal[e], cur |-> curLocal[e]]

\* pc.setLocalDescription(): an answer when a remote offer is pending, an
\* offer otherwise.
SetLocalDescription(e) ==
    IF signalingState[e] = "have-remote-offer"
    THEN [ok |-> TRUE, st |-> "stable", pend |-> "none", cur |-> "answer"]
    ELSE [ok |-> TRUE, st |-> "have-local-offer", pend |-> "offer", cur |-> curLocal[e]]

\* pc.setLocalDescription({type: 'rollback'}): InvalidStateError in stable.
Rollback(e) ==
    IF signalingState[e] = "stable"
    THEN Thrown(e)
    ELSE [ok |-> TRUE, st |-> "stable", pend |-> "none", cur |-> curLocal[e]]

\* pc.setRemoteDescription(description).  An answer is valid only against a
\* pending local offer.  An offer against a pending local offer is rolled
\* back implicitly, or refused by an engine that does not do so (legacy).
SetRemoteDescription(e, desc, legacy) ==
    IF desc = "offer"
    THEN IF signalingState[e] = "have-local-offer" /\ legacy
         THEN Thrown(e)
         ELSE [ok |-> TRUE, st |-> "have-remote-offer", pend |-> "none", cur |-> curLocal[e]]
    ELSE IF desc = "answer" /\ signalingState[e] = "have-local-offer"
         THEN [ok |-> TRUE, st |-> "stable", pend |-> "none", cur |-> "offer"]
         ELSE Thrown(e)

\* The engine refused an offer it could have rolled back for.
Refused(e, desc, legacy) ==
    desc = "offer" /\ signalingState[e] = "have-local-offer" /\ legacy

ApplyPc(e, r) ==
    /\ signalingState' = [signalingState EXCEPT ![e] = r.st]
    /\ pendLocal' = [pendLocal EXCEPT ![e] = r.pend]
    /\ curLocal' = [curLocal EXCEPT ![e] = r.cur]

pcVars == <<signalingState, pendLocal, curLocal>>

DescOf(r) == IF r.pend # "none" THEN r.pend ELSE r.cur

Emit(to, ev) == sigRelay' = [sigRelay EXCEPT ![to] = Append(@, ev)]

HeadIs(e, who, step) ==
    /\ chain[e] # <<>>
    /\ Head(chain[e]).who = who
    /\ Head(chain[e]).step = step

\* pc.onnegotiationneeded up to its await: the event fires in stable state
\* with no operation pending.
NegotiationNeeded(e) ==
    /\ nnFired[e] < MaxNegotiations
    /\ signalingState[e] = "stable"
    /\ chain[e] = <<>>
    /\ nnFired' = [nnFired EXCEPT ![e] = @ + 1]
    /\ makingOffer' = [makingOffer EXCEPT ![e] = TRUE]
    /\ chain' = [chain EXCEPT ![e] = <<Op("nn", "sld", "none")>>]
    /\ UNCHANGED <<engVars, meshVars, unitVars, polite, ignoreOffer, isSettingRemoteAnswerPending,
                   pcVars, sigRelay, strays, sigHist>>

\* makingOffer reset at the end of the try block instead of in finally.
MakingOfferAfterTry(e, threw) == threw

\* The finally block of onnegotiationneeded: makingOffer after the run,
\* whether or not the try block threw.
MakingOfferAfter(e, threw) == FALSE

\* onnegotiationneeded after setLocalDescription(): the offer is emitted;
\* a failure of either lands in catch; finally clears makingOffer.
NegotiationNeededDone(e, fails, sendFails) ==
    /\ HeadIs(e, "nn", "sld")
    /\ chain' = [chain EXCEPT ![e] = Tail(@)]
    /\ LET r == IF fails THEN Thrown(e) ELSE SetLocalDescription(e) IN
       /\ ApplyPc(e, r)
       /\ IF r.ok /\ ~sendFails
          THEN /\ Emit(Peer(e), OfferEvent(DescOf(r)))
               /\ offersSent' = [offersSent EXCEPT ![e] = @ + 1]
          ELSE UNCHANGED <<sigRelay, offersSent>>
    /\ makingOffer' = [makingOffer EXCEPT ![e] = MakingOfferAfter(e, fails \/ sendFails)]
    /\ faulted' = (faulted \/ fails \/ sendFails)
    /\ UNCHANGED <<engVars, meshVars, unitVars, polite, ignoreOffer, isSettingRemoteAnswerPending,
                   nnFired, strays, answersSent, accepted, rollbacks, ignored,
                   collided, lastAnswer>>

\* offerCollision of handleOffer.
OfferCollision(e) == makingOffer[e] \/ signalingState[e] # "stable"

\* A polite-by-default manager: every end ignores a colliding offer.
IgnoresOfferEveryone(e) == OfferCollision(e)

\* ignoreOffer computed from makingOffer alone.
IgnoresOfferWhileMaking(e) == ~polite[e] /\ makingOffer[e]

\* ignoreOffer of handleOffer.
IgnoresOffer(e) == ~polite[e] /\ OfferCollision(e)

\* socket.on('offer') and handleOffer up to its first await.
OnOffer(e) ==
    /\ sigRelay[e] # <<>>
    /\ Head(sigRelay[e]).kind = "offer"
    /\ sigRelay' = [sigRelay EXCEPT ![e] = Tail(@)]
    /\ IF Head(sigRelay[e]).desc = "none"
       THEN UNCHANGED <<ignoreOffer, chain, accepted, ignored, collided>>
       ELSE /\ ignoreOffer' = [ignoreOffer EXCEPT ![e] = IgnoresOffer(e)]
            /\ collided' = [collided EXCEPT ![e] = @ \/ OfferCollision(e)]
            /\ IF IgnoresOffer(e)
               THEN /\ ignored' = [ignored EXCEPT ![e] = @ + 1]
                    /\ UNCHANGED <<chain, accepted>>
               ELSE /\ accepted' = [accepted EXCEPT ![e] = @ + 1]
                    /\ chain' = [chain EXCEPT ![e] =
                          Append(@, Op("offer",
                                       IF OfferCollision(e) THEN "rollback" ELSE "srd",
                                       Head(sigRelay[e]).desc))]
                    /\ UNCHANGED ignored
    /\ UNCHANGED <<engVars, meshVars, unitVars, polite, makingOffer, isSettingRemoteAnswerPending,
                   pcVars, nnFired, strays, offersSent, answersSent, rollbacks,
                   faulted, lastAnswer>>

\* handleOffer after setLocalDescription({type: 'rollback'}).
HandleOfferRolledBack(e) ==
    /\ HeadIs(e, "offer", "rollback")
    /\ LET r == Rollback(e) IN
       /\ ApplyPc(e, r)
       /\ IF r.ok
          THEN /\ chain' = [chain EXCEPT ![e] =
                    Append(Tail(@), Op("offer", "srd", Head(chain[e]).desc))]
               /\ rollbacks' = [rollbacks EXCEPT ![e] = @ + 1]
          ELSE /\ chain' = [chain EXCEPT ![e] = Tail(@)]
               /\ UNCHANGED rollbacks
    /\ UNCHANGED <<engVars, meshVars, unitVars, polite, makingOffer, ignoreOffer,
                   isSettingRemoteAnswerPending, sigRelay, nnFired, strays,
                   offersSent, answersSent, accepted, ignored, collided,
                   faulted, lastAnswer>>

\* handleOffer after setRemoteDescription(offer).
HandleOfferApplied(e, legacy) ==
    /\ HeadIs(e, "offer", "srd")
    /\ LET r == SetRemoteDescription(e, Head(chain[e]).desc, legacy) IN
       /\ ApplyPc(e, r)
       /\ chain' = [chain EXCEPT ![e] =
             IF r.ok THEN Append(Tail(@), Op("offer", "sld", Head(chain[e]).desc))
             ELSE Tail(@)]
    /\ faulted' = (faulted \/ Refused(e, Head(chain[e]).desc, legacy))
    /\ UNCHANGED <<engVars, meshVars, unitVars, polite, makingOffer, ignoreOffer,
                   isSettingRemoteAnswerPending, sigRelay, nnFired, strays,
                   offerHist, lastAnswer>>

\* handleOffer after setLocalDescription(): the answer is emitted.
HandleOfferAnswered(e) ==
    /\ HeadIs(e, "offer", "sld")
    /\ chain' = [chain EXCEPT ![e] = Tail(@)]
    /\ LET r == SetLocalDescription(e) IN
       /\ ApplyPc(e, r)
       /\ Emit(Peer(e), AnswerEvent(DescOf(r)))
    /\ answersSent' = [answersSent EXCEPT ![e] = @ + 1]
    /\ UNCHANGED <<engVars, meshVars, unitVars, polite, makingOffer, ignoreOffer,
                   isSettingRemoteAnswerPending, nnFired, strays, offersSent,
                   accepted, rollbacks, ignored, collided, faulted, lastAnswer>>

\* handleAnswer without its test for the stable state.
AnswerRejectedPendingOnly(e) == isSettingRemoteAnswerPending[e]

\* The test under which handleAnswer rejects the answer.
AnswerRejected(e) ==
    isSettingRemoteAnswerPending[e] \/ signalingState[e] = "stable"

\* socket.on('answer') and handleAnswer up to its await.  A rejected answer
\* returns from inside the try block, so finally runs for it too.
OnAnswer(e) ==
    /\ sigRelay[e] # <<>>
    /\ Head(sigRelay[e]).kind = "answer"
    /\ sigRelay' = [sigRelay EXCEPT ![e] = Tail(@)]
    /\ IF AnswerRejected(e)
       THEN /\ isSettingRemoteAnswerPending' =
                  [isSettingRemoteAnswerPending EXCEPT ![e] = FALSE]
            /\ lastAnswer' = [lastAnswer EXCEPT ![e] =
                  IF isSettingRemoteAnswerPending[e] THEN "duplicate" ELSE "stable"]
            /\ UNCHANGED chain
       ELSE /\ isSettingRemoteAnswerPending' =
                  [isSettingRemoteAnswerPending EXCEPT ![e] = TRUE]
            /\ lastAnswer' = [lastAnswer EXCEPT ![e] = "applying"]
            /\ chain' = [chain EXCEPT ![e] =
                  Append(@, Op("answer", "srd", Head(sigRelay[e]).desc))]
    /\ UNCHANGED <<engVars, meshVars, unitVars, polite, makingOffer, ignoreOffer, pcVars, nnFired,
                   strays, offerHist, faulted>>

\* handleAnswer after setRemoteDescription(answer); finally clears the flag.
HandleAnswerApplied(e, legacy) ==
    /\ HeadIs(e, "answer", "srd")
    /\ chain' = [chain EXCEPT ![e] = Tail(@)]
    /\ ApplyPc(e, SetRemoteDescription(e, Head(chain[e]).desc, legacy))
    /\ isSettingRemoteAnswerPending' =
          [isSettingRemoteAnswerPending EXCEPT ![e] = FALSE]
    /\ faulted' = (faulted \/ Refused(e, Head(chain[e]).desc, legacy))
    /\ UNCHANGED <<engVars, meshVars, unitVars, polite, makingOffer, ignoreOffer, sigRelay,
                   nnFired, strays, offerHist, lastAnswer>>

\* The relay forwards an answer event to e that answers no offer of e's.
StrayAnswer(e) ==
    /\ strays < MaxStray
    /\ strays' = strays + 1
    /\ Emit(e, AnswerEvent("answer"))
    /\ UNCHANGED <<engVars, meshVars, unitVars, polite, makingOffer, ignoreOffer,
                   isSettingRemoteAnswerPending, pcVars, chain, nnFired,
                   sigHist>>

SigInit ==
    /\ polite \in [Ends -> BOOLEAN]
    /\ makingOffer = [e \in Ends |-> FALSE]
    /\ ignoreOffer = [e \in Ends |-> FALSE]
    /\ isSettingRemoteAnswerPending = [e \in Ends |-> FALSE]
    /\ signalingState = [e \in Ends |-> "stable"]
    /\ pendLocal = [e \in Ends |-> "none"]
    /\ curLocal = [e \in Ends |-> "none"]
    /\ chain = [e \in Ends |-> <<>>]
    /\ sigRelay = [e \in Ends |-> <<>>]
    /\ nnFired = [e \in Ends |-> 0]
    /\ strays = 0
    /\ offersSent = [e \in Ends |-> 0]
    /\ answersSent = [e \in Ends |-> 0]
    /\ accepted = [e \in Ends |-> 0]
    /\ rollbacks = [e \in Ends |-> 0]
    /\ ignored = [e \in Ends |-> 0]
    /\ collided = [e \in Ends |-> FALSE]
    /\ faulted = FALSE
    /\ lastAnswer = [e \in Ends |-> "none"]

NextSig ==
    \/ \E e \in Ends : NegotiationNeeded(e)
    \/ \E e \in Ends, fails \in BOOLEAN, sendFails \in BOOLEAN :
          NegotiationNeededDone(e, fails, sendFails)
    \/ \E e \in Ends : OnOffer(e)
    \/ \E e \in Ends : HandleOfferRolledBack(e)
    \/ \E e \in Ends, legacy \in BOOLEAN : HandleOfferApplied(e, legacy)
    \/ \E e \in Ends : HandleOfferAnswered(e)
    \/ \E e \in Ends : OnAnswer(e)
    \/ \E e \in Ends, legacy \in BOOLEAN : HandleAnswerApplied(e, legacy)
    \/ \E e \in Ends : StrayAnswer(e)

\* Two managers over their fresh peer connections; the engines stay as
\* constructed.
InitSig == EngInit /\ SigInit /\ MeshIdle /\ UnitIdle

SpecSig == InitSig /\ [][NextSig]_vars

\* The steps the event loop takes by itself: a received event is handled, a
\* pending descriptor call settles and its continuation runs.
SigProgress ==
    \/ \E e \in Ends, fails \in BOOLEAN, sendFails \in BOOLEAN :
          NegotiationNeededDone(e, fails, sendFails)
    \/ \E e \in Ends : OnOffer(e)
    \/ \E e \in Ends : HandleOfferRolledBack(e)
    \/ \E e \in Ends, legacy \in BOOLEAN : HandleOfferApplied(e, legacy)
    \/ \E e \in Ends : HandleOfferAnswered(e)
    \/ \E e \in Ends : OnAnswer(e)
    \/ \E e \in Ends, legacy \in BOOLEAN : HandleAnswerApplied(e, legacy)

\* Negotiation over a relay that forwards what the two ends emit, in order,
\* and nothing else; the event loop keeps running.
NextGlare ==
    \/ \E e \in Ends : NegotiationNeeded(e)
    \/ SigProgress

SpecGlare == InitSig /\ [][NextGlare]_vars /\ WF_vars(SigProgress)

(***************************************************************************)
(* Properties of the engine (Spec).                                        *)
(***************************************************************************)

\* C1: broadcastEncryptedAudio encrypts and transmits an audio message to
\* the peer only if, when the broadcast examined the link, the peer was in
\* secureChannels and a session key was stored for it; a link without the
\* secure flag is skipped (no encryption is started, nothing is sent).
AudioOnlyToSecurePeers ==
    \A e \in Ends :
        /\ bcastH[e].st = "encrypting" => bcastH[e].secure /\ bcastH[e].key # NoKey
        /\ \A m \in dc[e] : m.type = "audio" => m.secure /\ m.key # NoKey

\* C1 witness: an audio message is in flight on the data channel.
AudioTransmitted == \E e \in Ends : \E m \in dc[e] : m.type = "audio"

\* C2: an audio message received while the peer is not in secureChannels is
\* dropped: it is never decrypted with the session key (and so never played).
InsecureAudioDropped ==
    \A e \in Ends : audioH[e].st = "decrypting" => audioH[e].secure

\* C3: when a key message fails to unwrap, the receiver stores no key, sends
\* no key-ack, does not mark the peer secure, and leaves the link, the data
\* channel and the message handler as they were.
KeyUnwrapFailureIsContained ==
    [][\A e \in Ends :
          (/\ keyH[e].st = "unwrapping"
           /\ keyH[e].wrappedFor # "good"
           /\ keyH'[e].st = "idle")
          => /\ peerSessionKeys' = peerSessionKeys
             /\ secureChannels' = secureChannels
             /\ dc' = dc
             /\ linkVars' = linkVars
             /\ keyH'[e] = IdleKey]_vars

\* C3 witness: a key message failed to unwrap and the link is still open,
\* without key or secure flag, its handler ready for the next key message.
KeyUnwrapFailedLinkOpen ==
    \E e \in Ends :
        /\ keyFailed[e]
        /\ peerConnections[e] /\ dataChannels[e] /\ readyState[e] = "open"
        /\ transportUp
        /\ peerSessionKeys[e] = NoKey /\ ~secureChannels[e]
        /\ keyH[e] = IdleKey

\* C4: on a pairwise link at most one end generates a session key: an end
\* that did not create the link as initiator never generates or sends a key,
\* and the initiating end generates at most one key per link.
OneKeyGeneratorPerLink ==
    /\ \A e \in Ends : genCount[e] <= 1
    /\ \A e \in Ends :
          (peerConnections[e] /\ ~isInit[e])
          => /\ genCount[e] = 0
             /\ openH[e].live = FALSE
             /\ (transportUp => \A m \in dc[e] : m.type # "key")
    /\ LinksMatch => \E e \in Ends : genCount[e] = 0

\* C4 witness: the initiator generated its key and the key message reached
\* the other end, which generated none.
KeyGeneratedByInitiator ==
    \E e \in Ends :
        /\ LinksMatch /\ transportUp
        /\ isInit[e] /\ genCount[e] = 1
        /\ ~isInit[Peer(e)] /\ genCount[Peer(e)] = 0
        /\ peerSessionKeys[Peer(e)] = peerSessionKeys[e]
        /\ peerSessionKeys[e] # NoKey

(***************************************************************************)
(* Properties of the signaling managers (SpecSig, SpecGlare).              *)
(***************************************************************************)

InFlight(e, who) == {i \in DOMAIN chain[e] : chain[e][i].who = who}

Quiescent == \A e \in Ends : chain[e] = <<>> /\ sigRelay[e] = <<>>

\* Both ends have sent their one offer and neither has answered the other's;
\* nothing failed for an outside reason and no stray event is around.
GlareBegun(a) ==
    /\ ~polite[a] /\ polite[Peer(a)]
    /\ \A e \in Ends : nnFired[e] = 1 /\ offersSent[e] = 1 /\ answersSent[e] = 0
    /\ strays = 0 /\ ~faulted

\* The same history seen afterwards: each end met the other's offer while
\* its own was under way.
GlareHappened(a) ==
    /\ ~polite[a] /\ polite[Peer(a)]
    /\ \A e \in Ends : nnFired[e] = 1 /\ offersSent[e] = 1 /\ collided[e]
    /\ strays = 0 /\ ~faulted

GlareSettled(a) ==
    /\ \A e \in Ends : signalingState[e] = "stable" /\ pendLocal[e] = "none"
    /\ curLocal[a] = "offer" /\ curLocal[Peer(a)] = "answer"
    /\ ignored[a] = 1 /\ accepted[a] = 0 /\ rollbacks[a] = 0 /\ answersSent[a] = 0
    /\ ignored[Peer(a)] = 0 /\ rollbacks[Peer(a)] = 1 /\ answersSent[Peer(a)] = 1

\* C5: when the impolite end a and the polite end both send an offer before
\* either answers and the relay delivers in order, the exchange ends with
\* both ends stable on a's offer answered by the polite end: a ignored the
\* other offer, the polite end rolled back once and answered once.  No run
\* stays with both ends in have-local-offer.
GlareConverges ==
    /\ [](\A a \in Ends : (GlareHappened(a) /\ Quiescent) => GlareSettled(a))
    /\ \A a \in Ends :
          GlareBegun(a) ~> (GlareSettled(a) \/ \E e \in Ends : nnFired[e] > 1)
    /\ [](\A a \in Ends : GlareHappened(a) =>
            ~(Quiescent /\ \A e \in Ends : signalingState[e] = "have-local-offer"))

\* C5 witness: a glare was played out to its end.
GlareResolved == \E a \in Ends : GlareHappened(a) /\ Quiescent /\ GlareSettled(a)

\* C6: handleOffer on an impolite end with a collision sets ignoreOffer and
\* does nothing else: no descriptor call is made (no rollback, no remote
\* description, no answer), the signaling state and the pending local offer
\* stay as they were, and nothing is sent.
ImpoliteDropsCollidingOffer ==
    [][\A e \in Ends :
         (/\ sigRelay[e] # <<>>
          /\ Head(sigRelay[e]).kind = "offer"
          /\ Head(sigRelay[e]).desc # "none"
          /\ sigRelay'[e] = Tail(sigRelay[e])
          /\ ~polite[e]
          /\ (makingOffer[e] \/ signalingState[e] # "stable"))
         => /\ ignoreOffer'[e]
            /\ chain'[e] = chain[e]
            /\ signalingState'[e] = signalingState[e]
            /\ pendLocal'[e] = pendLocal[e]
            /\ curLocal'[e] = curLocal[e]
            /\ rollbacks'[e] = rollbacks[e]
            /\ answersSent'[e] = answersSent[e]
            /\ sigRelay'[Peer(e)] = sigRelay[Peer(e)]]_vars

\* C6 witness: an impolite end dropped an offer that met its own pending one.
ImpoliteDropped ==
    \E e \in Ends : ~polite[e] /\ ignored[e] = 1 /\ ignoreOffer[e] /\ pendLocal[e] = "offer"

\* C7: every offer a polite end takes up is answered exactly once: with a
\* collision after the rollback and the remote offer, without one directly.
PoliteAnswersEveryOffer ==
    \A e \in Ends :
        (polite[e] /\ strays = 0 /\ ~faulted /\ InFlight(e, "offer") = {})
        => answersSent[e] = accepted[e]

\* C8: at most one answer is being applied on a link at any time.
OneAnswerInFlight == \A e \in Ends : Cardinality(InFlight(e, "answer")) <= 1

\* C9: an answer handled while the signaling state is stable is dropped: no
\* descriptor call is made and the state and descriptions of the connection
\* stay as they were.
StableAnswerIgnored ==
    [][\A e \in Ends :
         (/\ sigRelay[e] # <<>>
          /\ Head(sigRelay[e]).kind = "answer"
          /\ sigRelay'[e] = Tail(sigRelay[e])
          /\ signalingState[e] = "stable")
         => /\ chain'[e] = chain[e]
            /\ signalingState'[e] = "stable"
            /\ pendLocal'[e] = pendLocal[e]
            /\ curLocal'[e] = curLocal[e]
            /\ sigRelay'[Peer(e)] = sigRelay[Peer(e)]]_vars

\* C9 witness: the last answer was rejected because the state was stable.
StableAnswerSeen ==
    \E e \in Ends : lastAnswer[e] = "stable" /\ signalingState[e] = "stable"

\* C10: makingOffer is true exactly while a run of onnegotiationneeded is
\* between its start and its end, and false once the run has ended, also
\* when setLocalDescription or the emit failed.
MakingOfferWhileOffering ==
    \A e \in Ends : makingOffer[e] <=> InFlight(e, "nn") # {}

\* C10 witness: a run of onnegotiationneeded ended without sending an offer.
OfferAttemptFailed ==
    \E e \in Ends :
        nnFired[e] = 1 /\ offersSent[e] = 0 /\ InFlight(e, "nn") = {} /\ ~makingOffer[e]

\* C11: when a negotiation round has finished on an end (no
\* onnegotiationneeded, handleOffer or handleAnswer run in flight, no event
\* waiting, signaling state stable), makingOffer,
\* isSettingRemoteAnswerPending and ignoreOffer are all false.  Stated for
\* the runs in which the roles are complementary, no call failed for an
\* outside reason and no stray event arrived.
GlareFlagsReset ==
    \A e \in Ends :
        (/\ polite[e] # polite[Peer(e)] /\ ~faulted /\ strays = 0
         /\ chain[e] = <<>> /\ sigRelay[e] = <<>> /\ signalingState[e] = "stable")
        => ~makingOffer[e] /\ ~isSettingRemoteAnswerPending[e] /\ ~ignoreOffer[e]

(***************************************************************************)
(* Properties of link creation and teardown (Spec, SpecRejoin).            *)
(***************************************************************************)

\* C12: when both clients are in the room and each holds a link made for
\* the other's present membership, exactly one of the two ends is polite
\* (polite = not created as initiator).
RolesComplementary ==
    (LinksMatch /\ \A e \in Ends : currentRoom[e] /\ signalingManagers[e])
    => isInit["A"] # isInit["B"]

\* e handles an event that calls createPeerConnection for its peer.
CreationAttempt(e) ==
    /\ relay[e] # <<>>
    /\ relay'[e] = Tail(relay[e])
    /\ \/ Head(relay[e]).type = "user-joined"
       \/ Head(relay[e]).type = "room-participants" /\ Head(relay[e]).has

\* C13: a creation attempt for a peer that already has a link leaves the
\* link as it is: its transport and connection state, its role, its data
\* channel, its session key and its secure flag.
CreationIdempotent ==
    [][\A e \in Ends :
         (peerConnections[e] /\ CreationAttempt(e))
         => /\ connectionState'[e] = connectionState[e]
            /\ isInit'[e] = isInit[e]
            /\ dataChannels'[e] = dataChannels[e]
            /\ readyState'[e] = readyState[e]
            /\ chanInit'[e] = chanInit[e]
            /\ peerSessionKeys'[e] = peerSessionKeys[e]
            /\ secureChannels'[e] = secureChannels[e]]_vars

\* C14: when e has handled user-left for its peer, the link is torn down:
\* the peer is absent from peerConnections, dataChannels, signalingManagers,
\* peerSessionKeys and secureChannels, and the data channel is closed.
UserLeftTearsDown ==
    [][\A e \in Ends :
         (/\ relay[e] # <<>>
          /\ Head(relay[e]).type = "user-left"
          /\ relay'[e] = Tail(relay[e]))
         => /\ ~peerConnections'[e]
            /\ ~dataChannels'[e]
            /\ readyState'[e] \in {"none", "closed"}
            /\ ~signalingManagers'[e]
            /\ peerSessionKeys'[e] = NoKey
            /\ ~secureChannels'[e]]_vars

\* C15: when the transport of e's link reports failed, the link is torn
\* down: the peer is removed from peerConnections, dataChannels and
\* signalingManagers, the transport is closed and the session key and the
\* secure flag are discarded.
TransportFailureTearsDown ==
    [][\A e \in Ends :
         (peerConnections[e] /\ connectionState[e] # "failed"
          /\ connectionState'[e] = "failed")
         => /\ ~peerConnections'[e]
            /\ ~dataChannels'[e]
            /\ ~signalingManagers'[e]
            /\ peerSessionKeys'[e] = NoKey
            /\ ~secureChannels'[e]]_vars

\* C16: a link starts without session key and without secure flag, also
\* when an earlier link to the same peer was torn down before: no key of a
\* previous link is held for the new one.
NewLinkStartsKeyless ==
    [][\A e \in Ends :
         CreationAttempt(e)
         => peerSessionKeys'[e] = NoKey /\ ~secureChannels'[e]]_vars

\* C17: while e holds no link to its peer (it was torn down, or none was
\* made yet), no step stores a session key for the peer, marks the peer
\* secure, or sends it a key, key-ack or audio message.
TeardownIsFinal ==
    [][\A e \in Ends :
         (~peerConnections[e] /\ ~peerConnections'[e])
         => /\ peerSessionKeys'[e] \in {peerSessionKeys[e], NoKey}
            /\ secureChannels'[e] => secureChannels[e]
            /\ dc'[e] \subseteq dc[e]]_vars

\* C18: when leaveRoom has run, the engine is in no room and holds no
\* per-peer state: the peer is absent from peerConnections, dataChannels,
\* signalingManagers, peerSessionKeys and secureChannels.
LeaveRoomClearsPeers ==
    [][\A e \in Ends :
         (currentRoom[e] /\ ~currentRoom'[e])
         => /\ ~peerConnections'[e]
            /\ ~dataChannels'[e]
            /\ ~signalingManagers'[e]
            /\ peerSessionKeys'[e] = NoKey
            /\ ~secureChannels'[e]]_vars

(***************************************************************************)
(* Progress of a join (SpecRejoinFair).                                    *)
(***************************************************************************)

\* Both clients are in the room, each sent a public key with join-room that
\* matches its private key, and each holds a link made for the membership
\* the other holds now.
BothJoined ==
    /\ participants = Ends
    /\ \A e \in Ends : currentRoom[e] /\ partKey[e] = "good"

BothSecure ==
    /\ LinksMatch
    /\ \A e \in Ends : connectionState[e] = "connected" /\ secureChannels[e]

\* C19: once a user has joined the room of one other participant, with the
\* relay delivering in order and the event loops running, both ends reach a
\* connected transport and both hold the other in secureChannels (unless
\* one of them leaves first).
JoinLeadsToSecure == BothJoined ~> (BothSecure \/ ~BothJoined)

(***************************************************************************)
(* Isolation of failures between the peers of one engine (SpecMesh).       *)
(***************************************************************************)

\* C20: a failure handling one peer does not keep another peer from being
\* processed.  When the room-participants handler has finished, every
\* participant it was given has a link, except those whose own
\* createPeerConnection threw.
CreationFailureIsolated ==
    rpH.st = "idle" =>
        \A i \in 1..Len(listed) : listed[i] \notin threwFor => listed[i] \in linked

\* The broadcast half of C20: the loop of broadcastEncryptedAudio ends only
\* when no secure peer is left to visit, whatever the outcome of the send
\* it has just made.
SendFailureIsolated ==
    [][(meshH.st = "encrypting" /\ meshH'.st = "idle")
        => \A i \in (meshH.pos + 1)..Len(channels) : channels[i] \notin secured]_vars

(***************************************************************************)
(* Channel-open without the peer's public key (Spec, SpecRetry).           *)
(***************************************************************************)

\* The data channel of e opens on the side that created it.
InitiatorOpens(e) ==
    /\ chanInit[e]
    /\ peerConnections[e]
    /\ readyState[e] = "connecting"
    /\ readyState'[e] = "open"

\* The first half of C21: a channel-open on the initiating side with the
\* peer's public key unknown generates and stores no session key, sends
\* nothing, and leaves the link and its channel in place.
MissingKeyOpenIsQuiet ==
    [][\A e \in Ends :
          (InitiatorOpens(e) /\ publicKey[e] = "none") =>
              /\ openH'[e] = IdleOpen
              /\ genCount'[e] = genCount[e]
              /\ peerSessionKeys'[e] = peerSessionKeys[e]
              /\ dc'[e] = dc[e]
              /\ peerConnections'[e] /\ readyState'[e] = "open"]_vars

\* C21: a channel-open on the initiating side with the peer's public key
\* unknown generates no key and sends nothing, and a later channel-open of B
\* for the link to A, the public key of A now known, starts the key
\* exchange.
MissingKeyDeferred ==
    [][/\ \A e \in Ends :
             (InitiatorOpens(e) /\ publicKey[e] = "none") =>
                 /\ openH'[e] = IdleOpen
                 /\ peerSessionKeys'[e] = peerSessionKeys[e]
                 /\ dc'[e] = dc[e]
                 /\ peerConnections'[e] /\ readyState'[e] = "open"
       /\ (InitiatorOpens("B") /\ publicKey["B"] # "none") =>
              openH'["B"].st = "generating"]_vars

(***************************************************************************)
(* Properties of the audio path (SpecAudio).                               *)
(***************************************************************************)

\* A message leaves the wire: handleIncomingAudio ran.
AudioHandled == wire.there /\ ~wire'.there

\* C22: a frame whose nonce, ciphertext or tag was altered, or that was
\* sealed under another key than the receiver holds, is never handed to
\* playAudio; the handler leaves the receiver's session key as it was, and
\* an unaltered frame sealed under the receiver's key is played as sent,
\* also after a frame was dropped.
TamperedAudioDropped ==
    [][AudioHandled =>
          /\ rxKey' = rxKey
          /\ (tampered \/ rxKey # origin.key) =>
                 played' = played /\ handled' # Append(handled, "played")
          /\ (~tampered /\ rxKey = origin.key) =>
                 played' = Append(played, origin.frame)]_vars

DroppedThenPlayed == handled = <<"dropped", "played">> /\ played # <<>>

\* C25: every payload encryptAudioAES produced, split into the iv and data
\* arrays of the audio message and put together again by the receiver,
\* decrypts under the same key to the frame that was encrypted.
AudioRoundTrip ==
    \A s \in sealed :
        DecryptAudioAES(Combined(AudioMessage(s.payload)), s.key)
            = [ok |-> TRUE, frame |-> s.frame]

FramePlayedAsSent ==
    /\ ~wire.there
    /\ ~tampered
    /\ played # <<>>
    /\ played[Len(played)] = origin.frame
    /\ Len(origin.frame) > 4

WrapParsed == unwrapSt.st # "idle"

\* The chunks were sliced one frame after the other from the start of the
\* stream, each with the length its prefix declares.
FramesInOrder ==
    \A i \in DOMAIN unwrapSt.extents :
        /\ unwrapSt.extents[i][1] =
               (IF i = 1 THEN 0 ELSE unwrapSt.extents[i - 1][2]) + LengthBytes
        /\ unwrapSt.extents[i][2] =
               unwrapSt.extents[i][1]
               + GetUint32(stream, unwrapSt.extents[i][1] - LengthBytes)
        /\ unwrapSt.chunks[i] =
               SubSeq(stream, unwrapSt.extents[i][1] + 1, unwrapSt.extents[i][2])

\* C23: unwrapping a byte stream fails with a format error, before any
\* decryption and without asking for bytes past the end of the buffer,
\* whenever at a frame boundary 1 to 3 bytes remain for the length prefix
\* or the declared chunk length exceeds the bytes that remain after the
\* prefix; every chunk extracted lies entirely inside the buffer.
MalformedWrapRejected ==
    WrapParsed =>
        LET remaining == Len(stream) - unwrapSt.at
            boundary == IF unwrapSt.extents = <<>> THEN 0
                        ELSE unwrapSt.extents[Len(unwrapSt.extents)][2]
        IN  /\ unwrapSt.top <= Len(stream)
            /\ \A i \in DOMAIN unwrapSt.extents :
                   unwrapSt.extents[i][2] <= Len(stream)
            /\ FramesInOrder
            /\ unwrapSt.at = boundary
            /\ (remaining > 0 /\ remaining < LengthBytes)
                   => (unwrapSt.st = "rejected" /\ unwrapSt.err = FormatError)
            /\ (remaining >= LengthBytes
                /\ GetUint32(stream, unwrapSt.at) > remaining - LengthBytes)
                   => (unwrapSt.st = "rejected" /\ unwrapSt.err = LengthError)
            /\ unwrapSt.err \in {FormatError, LengthError}
                   => (unwrapSt.decrypts = 0 /\ unwrapSt.out = NoValue)
            /\ remaining <= 0 => (remaining = 0 /\ unwrapSt.err
                                     \notin {FormatError, LengthError})

\* A stream of two frames cut inside its second frame: the first chunk was
\* extracted, the second rejected for its length.
SecondChunkRejected ==
    /\ cut = "truncated"
    /\ unwrapSt.st = "rejected"
    /\ unwrapSt.err = LengthError
    /\ Len(unwrapSt.chunks) = 1
    /\ unwrapSt.decrypts = 0

Unwrapped ==
    /\ unwrapSt.st = "done"
    /\ cut = "no"
    /\ wrapped.pub = rxKeyPair

\* encryptAudio then decryptAudio with the matching key pair gives back the
\* bytes, for every length, and so do the bytes of a wrapped session key.
WrapBytesRoundTrip == Unwrapped => unwrapSt.out.bytes = wrapped.val.bytes

LongBufferUnwrapped ==
    /\ Unwrapped
    /\ wrapped.kind = "data"
    /\ Len(wrapped.val.bytes) > MAX_CHUNK_SIZE
    /\ unwrapSt.decrypts = 2

\* C24: for every session key k and matching key pair,
\* decryptSessionKey(encryptSessionKey(k, pub)) is k.
KeyWrapRoundTrip ==
    (Unwrapped /\ wrapped.kind = "key") => unwrapSt.out = wrapped.val


(***************************************************************************)
(* Properties of joining and leaving (SpecJoin).                           *)
(***************************************************************************)

LastOf(history, n) ==
    SubSeq(history, IF Len(history) > n THEN Len(history) - n + 1 ELSE 1,
           Len(history))

\* C27: after every tick the history holds the at most 5 most recent
\* samples, the oldest dropped first; the speaking state is true only with
\* at least 3 positive samples in the window; onSpeakingChange is called
\* only on a tick that changes the state, with the new state.
SpeakingDebounced ==
    [][/\ Len(speakingHistory') <= SPEAKING_HISTORY_SIZE
       /\ isSpeaking' => SpeakingCount(speakingHistory') >= 3
       /\ ticks' # ticks =>
              speakingHistory' = LastOf(Append(speakingHistory, lastSample'),
                                        SPEAKING_HISTORY_SIZE)
       /\ spoke' # spoke =>
              /\ ticks' # ticks
              /\ isSpeaking' # isSpeaking
              /\ spoke' = Append(spoke, isSpeaking')]_vars

\* Speech was reported and, with three silent samples in the full window,
\* its end.
SpokeThenFellSilent ==
    /\ spoke = <<TRUE, FALSE>>
    /\ Len(speakingHistory) = SPEAKING_HISTORY_SIZE
    /\ SpeakingCount(speakingHistory) = 2

JoinFails(c) ==
    /\ c \in DOMAIN joinCalls'
    /\ joinCalls'[c].st = "failed"
    /\ (c \in DOMAIN joinCalls => joinCalls[c].st # "failed")

EmitsJoin ==
    /\ Len(emits') = Len(emits) + 1
    /\ emits'[Len(emits')].type = "join-room"

\* C30: a room already joined is left, its links torn down and leave-room
\* sent, before the next join-room is sent; and when a joinRoom call fails,
\* currentRoom is null, isConnected is false and the call has sent no
\* join-room.
JoinKeepsOneRoom ==
    [][/\ EmitsJoin =>
              /\ emits = <<>> \/ emits[Len(emits)].type = "leave-room"
              /\ ~hasLinks
       /\ \A c \in 1..MaxCalls :
              JoinFails(c) =>
                  /\ curRoom' = "none"
                  /\ ~isConnected'
                  /\ ~joinCalls'[c].sentJoin]_vars


(***************************************************************************)
(* Serialization of the handlers of one link (SpecSig).                    *)
(***************************************************************************)

\* A handler of the manager at e starts: a relayed offer or answer is
\* taken up, or negotiationneeded fires.
HandlerStarts(e) ==
    \/ Len(sigRelay'[e]) < Len(sigRelay[e])
    \/ nnFired'[e] # nnFired[e]

\* C28: no handler of a link starts while another handler of the same link
\* is suspended at an await.
HandlersSerialized ==
    [][\A e \in Ends : HandlerStarts(e) => chain[e] = <<>>]_vars


(***************************************************************************)
(* Properties of initialize (SpecInitialize).                              *)
(***************************************************************************)

\* C29: however often initialize is called, at most one signaling socket
\* is created and at most one set of relay listeners is registered.
SingleSocket == Len(sockets) <= 1 /\ listenerSets <= 1


(***************************************************************************)
(* Roles at link creation (Spec).                                          *)
(***************************************************************************)

\* e handles user-joined for its peer.
HandlesUserJoined(e) ==
    /\ relay[e] # <<>>
    /\ Head(relay[e]).type = "user-joined"
    /\ relay'[e] = Tail(relay[e])

\* e handles room-participants listing its peer.
HandlesParticipants(e) ==
    /\ relay[e] # <<>>
    /\ Head(relay[e]).type = "room-participants"
    /\ Head(relay[e]).has
    /\ relay'[e] = Tail(relay[e])

Pending == {iceChain[i].cand : i \in {j \in DOMAIN iceChain : iceChain[j].op = "add"}}

\* C31: a remote candidate that arrives before the remote description is
\* set, or before the link exists, is not lost: it is applied, or waits to
\* be applied, or is kept in pendingCandidates.
CandidatesKept ==
    /\ iceLost = {}
    /\ iceArrived = iceApplied \cup Pending \cup pendingCandidates


\* C33: starting a personal meeting is idempotent: every response to a
\* personal request is the room whose join code is the requesting user's
\* personal join code, so two responses to one user are the same room, and
\* no user has created more than one room.
PersonalIdempotent ==
    /\ \A i \in 1..Len(personalResp) :
          roomsDb[personalResp[i].room].joinCode
              = PersonalJoinCode(personalResp[i].user)
    /\ \A i, j \in 1..Len(personalResp) :
          personalResp[i].user = personalResp[j].user
              => personalResp[i].room = personalResp[j].room
    /\ \A u \in Members :
          Cardinality({i \in 1..Len(roomsDb) : roomsDb[i].createdBy = u}) <= 1


\* C34: whenever both ends of the link hold the secure flag for each other,
\* the session key stored at one end is the session key stored at the other.
KeyAgreement ==
    (\A e \in Ends : secureChannels[e])
        => peerSessionKeys["A"] = peerSessionKeys["B"]


\* C35: every peer marked secure has a session key, and every peer that has
\* a session key or is marked secure has an entry in peerConnections.
SecureImpliesKeyAndLink ==
    \A e \in Ends :
        /\ secureChannels[e] => peerSessionKeys[e] # NoKey
        /\ (peerSessionKeys[e] # NoKey \/ secureChannels[e]) => peerConnections[e]


\* C36: on a link that stays open, once an end has generated a session key
\* for a peer whose public key is good, both ends eventually hold the secure
\* flag, whether or not the key message or the key-ack is lost.
KeyExchangeSurvivesLoss ==
    (\E e \in Ends : openH[e].st = "wrapping" /\ openH[e].pub = "good")
        ~> (\A e \in Ends : secureChannels[e])


\* a was told about b through room-participants and b about a through
\* user-joined, and not the other way round.
ToldOneWay(a, b) ==
    /\ Msg(a, b, "room-participants") \in told
    /\ Msg(b, a, "user-joined") \in told
    /\ Msg(b, a, "room-participants") \notin told
    /\ Msg(a, b, "user-joined") \notin told

\* C37: of any two sockets that joined the room and did not leave, exactly
\* one was told about the other through room-participants and the other
\* through user-joined.
JoinSymmetry ==
    \A a, b \in ioRoom : a # b => ToldOneWay(a, b) \/ ToldOneWay(b, a)

\* C38: after a socket left the room or disconnected, no entry of the
\* participants stores its socket id, and every socket that was in the room
\* with it has been sent user-left for it.
RelayCleanup ==
    /\ \A s \in departed : \A u \in UserIds : roomParticipants[u] # s
    /\ \A o \in owed : Msg(o.to, o.about, "user-left") \in told


\* C39: while the engine is deafened the gain of every peer's node is 0, and
\* the step that ends deafening gives every node the gain it had when the
\* engine was deafened.
DeafenedIsSilentAndRestored ==
    [][/\ deafened' => \A p \in audioNodes' : gainValue'[p] = 0
       /\ (deafened /\ ~deafened')
             => \A p \in audioNodes' \cap nodesBefore :
                   gainValue'[p] = gainBefore[p]]_vars


RECURSIVE Flatten(_)
Flatten(frames) ==
    IF frames = <<>> THEN <<>>
    ELSE Head(frames) \o Flatten(Tail(frames))

\* C40: bytesWritten never exceeds the buffer size, and the frames posted so
\* far followed by the buffered samples are the input samples in order.
WorkletKeepsSamples ==
    /\ bytesWritten <= bufferSize
    /\ LET kept == Flatten(posted) \o SubSeq(buffer, 1, bytesWritten)
       IN  /\ Len(kept) = fedSamples
           /\ \A i \in 1..fedSamples : kept[i] = i

\* Two frames were posted, one of them with samples, and samples are
\* buffered behind them.
WorkletFlushed ==
    /\ Len(posted) >= 2
    /\ \E i \in 1..Len(posted) : Len(posted[i]) > 0
    /\ bytesWritten > 0
    /\ ~processThrew

====
